---- MODULE Spec2Model ----
(***************************************************************************)
(* Model of the training engine of Steel-Optimizer (src/src/lib/           *)
(* ml-engine.ts) together with the worker that hosts it                    *)
(* (training.worker.ts, src/unnamed/part_006).                             *)
(*                                                                         *)
(* Numbers.  A JavaScript number is modelled as a fixed-point integer with *)
(* SCALE units per 1.0, extended with the three IEEE-754 specials NaN,     *)
(* +Infinity and -Infinity.  Every arithmetic operator below follows the   *)
(* IEEE rules for the specials; finite results are truncated toward zero   *)
(* to the fixed-point grid.  Feature and target values of the data sets    *)
(* are integers, for which every threshold comparison of the code is       *)
(* reproduced exactly.                                                     *)
(***************************************************************************)
EXTENDS Integers, Sequences, FiniteSets, TLC

VARIABLES
    data,        \* rows handed to the worker (e.data.data)
    config,      \* TrainingConfig (e.data.config)
    pc,          \* position of trainModels / the worker handler
    now,         \* the wall clock read by Date.now()
    progress,    \* 'progress' messages posted so far, in order
    outbox,      \* 'result' / 'error' messages posted by the worker, in order
    split,       \* X_train, y_train, X_test, y_test, X_all, y_all after the split
    results,     \* the results array of trainModels
    cur,         \* locals of the model kind being trained
    loop,        \* locals of the running loop (trees, rounds, folds, features)
    run,         \* number of the current run of the worker on this input
    prev,        \* messages of the previous run (for comparing two runs)
    live,        \* the in-memory predictors of the run: model and scaler per artifact
    lastPred,    \* outcome of the last predictWithModel call by the host
    call,        \* a function of the engine applied on its own: arguments, result
    host         \* the training page, its workers, the store and the server's tables

vars == <<data, config, pc, now, progress, outbox, split, results, cur, loop,
          run, prev, live, lastPred, call, host>>

----------------------------------------------------------------------------
(* Fixed-point numbers with IEEE specials                                  *)

SCALE == 10 * 10

PInf == 2^30
NInf == -(2^30)
NaN  == 2^30 + 1

IsNaN(a) == a = NaN
IsInf(a) == a = PInf \/ a = NInf
\* isFinite(v) && !isNaN(v)
IsFiniteNum(a) == ~IsNaN(a) /\ ~IsInf(a)

\* integer division truncating toward zero
TDiv(x, d) == IF x >= 0 THEN x \div d ELSE -((-x) \div d)

Sgn(a) == IF a > 0 THEN 1 ELSE IF a < 0 THEN -1 ELSE 0

NNeg(a) == IF IsNaN(a) THEN NaN ELSE -a

NAdd(a, b) ==
    IF IsNaN(a) \/ IsNaN(b) THEN NaN
    ELSE IF IsInf(a) THEN (IF IsInf(b) /\ a # b THEN NaN ELSE a)
    ELSE IF IsInf(b) THEN b
    ELSE a + b

NSub(a, b) == NAdd(a, NNeg(b))

\* product of two fixed-point numbers
NMul(a, b) ==
    IF IsNaN(a) \/ IsNaN(b) THEN NaN
    ELSE IF IsInf(a) \/ IsInf(b)
         THEN (IF a = 0 \/ b = 0 THEN NaN
               ELSE IF Sgn(a) * Sgn(b) > 0 THEN PInf ELSE NInf)
    ELSE TDiv(a * b, SCALE)

\* quotient of two fixed-point numbers
NDiv(a, b) ==
    IF IsNaN(a) \/ IsNaN(b) THEN NaN
    ELSE IF IsInf(a) THEN (IF IsInf(b) THEN NaN
                           ELSE IF Sgn(a) * (IF b < 0 THEN -1 ELSE 1) > 0
                                THEN PInf ELSE NInf)
    ELSE IF IsInf(b) THEN 0
    ELSE IF b = 0 THEN (IF a = 0 THEN NaN ELSE IF a > 0 THEN PInf ELSE NInf)
    ELSE TDiv(a * SCALE, b)

\* a fixed-point number times / divided by a plain integer count
NMulN(a, n) ==
    IF IsNaN(a) THEN NaN
    ELSE IF IsInf(a) THEN (IF n = 0 THEN NaN ELSE IF n > 0 THEN a ELSE -a)
    ELSE a * n

NDivN(a, n) ==
    IF IsNaN(a) THEN NaN
    ELSE IF n = 0 THEN (IF a = 0 THEN NaN ELSE IF a > 0 THEN PInf ELSE NInf)
    ELSE IF IsInf(a) THEN a
    ELSE TDiv(a, n)

\* the fixed-point value of the plain integer n
NOfInt(n) == n * SCALE

\* comparisons: every comparison with NaN is false
NLe(a, b) == ~IsNaN(a) /\ ~IsNaN(b) /\ a <= b
NLt(a, b) == ~IsNaN(a) /\ ~IsNaN(b) /\ a < b
NEq(a, b) == ~IsNaN(a) /\ ~IsNaN(b) /\ a = b

\* Math.max / Math.min / Math.abs
NMax(a, b) == IF IsNaN(a) \/ IsNaN(b) THEN NaN ELSE IF a >= b THEN a ELSE b
NMin(a, b) == IF IsNaN(a) \/ IsNaN(b) THEN NaN ELSE IF a <= b THEN a ELSE b
NAbs(a) == IF IsNaN(a) THEN NaN ELSE IF a < 0 THEN -a ELSE a

\* floor of the square root of the natural number v, by bisection on [lo, hi)
RECURSIVE ISqrtIn(_, _, _)
ISqrtIn(v, lo, hi) ==
    IF hi - lo <= 1 THEN lo
    ELSE LET mid == (lo + hi) \div 2
         IN IF mid * mid <= v THEN ISqrtIn(v, mid, hi) ELSE ISqrtIn(v, lo, mid)

\* every argument is below 2^31, so the root is below 2^16
ISqrt(v) == ISqrtIn(v, 0, 46341)

\* Math.sqrt
NSqrt(a) ==
    IF IsNaN(a) \/ a < 0 THEN NaN
    ELSE IF a = PInf THEN PInf
    ELSE ISqrt(a * SCALE)

\* v itself; evaluating the equality makes TLC compute v once, in full, where
\* it is built, instead of element by element at every later use
Force(v) == IF v = v THEN v ELSE v

\* acc + s[lo] + ... + s[hi], added left to right; the range is halved and
\* the left half is computed (left = left) before the right half is entered,
\* so that the evaluation does not nest as deep as the sequence is long
RECURSIVE NSumFrom(_, _, _, _)
NSumFrom(s, lo, hi, acc) ==
    IF lo > hi THEN acc
    ELSE IF lo = hi THEN NAdd(acc, s[lo])
    ELSE LET mid == (lo + hi) \div 2
             left == NSumFrom(s, lo, mid, acc)
         IN IF left = left THEN NSumFrom(s, mid + 1, hi, left) ELSE left

\* sum of a sequence of numbers, left to right from 0 (Array.prototype.reduce)
NSum(s) == LET fs == Force(s) IN NSumFrom(fs, 1, Len(fs), 0)

Idx(s) == 1..Len(s)

----------------------------------------------------------------------------
(* The 32-bit linear congruential generator                                *)
(* state' = (Math.imul(state, 1664525) + 1013904223) >>> 0                 *)
(* A state is kept as two 16-bit halves <<hi, lo>>, so that no product     *)
(* leaves the 32-bit range.                                                *)

LcgMul == 1664525
LcgInc == 1013904223
SeedBase == 42
TreeSeedStep == 31337
PermSeedStep == 1234567

Half == 2^16

\* n >>> 0 for 0 <= n < 2^31
U32(n) == <<n \div Half, n % Half>>

LcgNext(s) ==
    LET lo == (s[2] * (LcgMul % Half)) + (LcgInc % Half)
        hi == (lo \div Half) + (s[1] * (LcgMul % Half)) + (s[2] * (LcgMul \div Half))
              + (LcgInc \div Half)
    IN <<hi % Half, lo % Half>>

\* (s + 1) >>> 0
U32Inc(s) ==
    IF s[2] + 1 < Half THEN <<s[1], s[2] + 1>> ELSE <<(s[1] + 1) % Half, 0>>

\* s % m for a small positive m
U32Mod(s, m) == (((s[1] % m) * (Half % m)) + (s[2] % m)) % m

\* Math.floor((s / 0x100000000) * n) for a small natural n
U32FloorMul(s, n) == ((s[1] * n) + ((s[2] * n) \div Half)) \div Half

----------------------------------------------------------------------------
(* Raw cells of a data row and the Number() conversion                     *)

NumCell(n) == [t |-> "number", v |-> n, s |-> ""]
StrCell(str) == [t |-> "string", v |-> 0, s |-> str]
NullCell == [t |-> "null", v |-> 0, s |-> ""]
UndefCell == [t |-> "undefined", v |-> 0, s |-> ""]

\* row[col]; a column the row does not have reads as undefined
Cell(row, col) == IF col \in DOMAIN row THEN row[col] ELSE UndefCell

\* Number(string) for the strings that occur in the data sets
StringToNumber(str) ==
    CASE str = "" -> 0
      [] str = " " -> 0
      [] str = "7" -> NOfInt(7)
      [] str = "Infinity" -> PInf
      [] str = "-Infinity" -> NInf
      [] OTHER -> NaN

\* Number(value)
ToNumber(c) ==
    CASE c.t = "number" -> c.v
      [] c.t = "string" -> StringToNumber(c.s)
      [] c.t = "null" -> 0
      [] OTHER -> NaN

IsEmptyString(c) == c.t = "string" /\ c.s = ""
IsNull(c) == c.t = "null"

----------------------------------------------------------------------------
(* trainModels: cleaning, shuffle, split                                   *)

MinCleanRows == 10

\* the predicate of data.filter(...)
RowPassesFilter(row, cfg) ==
    LET tc == Cell(row, cfg.targetVariable)
    IN IF IsNaN(ToNumber(tc)) \/ IsEmptyString(tc) \/ IsNull(tc) THEN FALSE
       ELSE \A i \in Idx(cfg.features) :
              LET c == Cell(row, cfg.features[i])
              IN ~IsNaN(ToNumber(c)) /\ ~IsEmptyString(c) /\ ~IsNull(c)

CleanData(d, cfg) == LET Keep(row) == RowPassesFilter(row, cfg) IN SelectSeq(d, Keep)

\* the pairs {x, y} built from the clean rows, in filtered order
MakePairs(clean, cfg) ==
    Force([i \in Idx(clean) |->
        [x |-> Force([k \in Idx(cfg.features) |->
                        ToNumber(Cell(clean[i], cfg.features[k]))]),
         y |-> ToNumber(Cell(clean[i], cfg.targetVariable))]])

Swap(s, a, b) == [s EXCEPT ![a] = s[b], ![b] = s[a]]

\* a shuffle that draws every swap index from the whole array
RECURSIVE ShuffleFromAnyIndex(_, _, _)
ShuffleFromAnyIndex(s, seed, i) ==
    IF i <= 1 THEN s
    ELSE LET sd == LcgNext(seed)
             j  == U32Mod(sd, Len(s)) + 1
         IN ShuffleFromAnyIndex(Swap(s, i, j), sd, i - 1)

\* the passes of the Fisher-Yates loop for an array of i elements, first to
\* last: the loop's i and j as the code counts them (from 0) and the seed
RECURSIVE ShuffleSwaps(_, _)
ShuffleSwaps(seed, i) ==
    IF i <= 1 THEN <<>>
    ELSE LET sd == LcgNext(seed)
         IN <<[i |-> i - 1, j |-> U32Mod(sd, i), seed |-> sd]>> \o ShuffleSwaps(sd, i - 1)

\* the Fisher-Yates loop, for (i = n - 1; i > 0; i--), with i counted from 1 here
RECURSIVE ShuffleFrom(_, _, _)
ShuffleFrom(s, seed, i) ==
    IF i <= 1 THEN s
    ELSE LET sd == LcgNext(seed)
             j  == U32Mod(sd, i) + 1
         IN ShuffleFrom(Swap(s, i, j), sd, i - 1)

\* a seed taken from the clock instead of the constant 42
ShuffleSeedFromClock == U32(SeedBase + now)

ShuffleSeed == U32(SeedBase)

Shuffle(pairs) == ShuffleFrom(pairs, ShuffleSeed, Len(pairs))

\* Math.floor(n * (1 - testSplit)); testSplit is held in percent
SplitIndex(n, testSplit) == (n * (100 - testSplit)) \div 100

\* a split that hands only the training partition to cross-validation
MakeSplitCvOnTrain(shuffled, testSplit) ==
    LET k == SplitIndex(Len(shuffled), testSplit)
        n == Len(shuffled)
    IN [X_train |-> Force([i \in 1..k |-> shuffled[i].x]),
        y_train |-> Force([i \in 1..k |-> shuffled[i].y]),
        X_test  |-> Force([i \in 1..(n - k) |-> shuffled[k + i].x]),
        y_test  |-> Force([i \in 1..(n - k) |-> shuffled[k + i].y]),
        X_all   |-> Force([i \in 1..k |-> shuffled[i].x]),
        y_all   |-> Force([i \in 1..k |-> shuffled[i].y])]

MakeSplit(shuffled, testSplit) ==
    LET k == SplitIndex(Len(shuffled), testSplit)
        n == Len(shuffled)
    IN [X_train |-> Force([i \in 1..k |-> shuffled[i].x]),
        y_train |-> Force([i \in 1..k |-> shuffled[i].y]),
        X_test  |-> Force([i \in 1..(n - k) |-> shuffled[k + i].x]),
        y_test  |-> Force([i \in 1..(n - k) |-> shuffled[k + i].y]),
        X_all   |-> Force([i \in 1..n |-> shuffled[i].x]),
        y_all   |-> Force([i \in 1..n |-> shuffled[i].y])]

----------------------------------------------------------------------------
(* StandardScaler                                                          *)

\* x[i] of a JavaScript array, i counted from 0; out of range reads as
\* undefined, which every arithmetic operator and comparison treats as NaN
At(x, i) == IF i + 1 \in DOMAIN x THEN x[i + 1] ELSE NaN

Column(X, f) == Force([i \in Idx(X) |-> X[i][f]])

\* Math.sqrt(variance) || 1
StdOrOne(variance) ==
    LET sd == NSqrt(variance) IN IF IsNaN(sd) \/ sd = 0 THEN NOfInt(1) ELSE sd

\* a fit that takes its statistics from all shuffled rows, test rows included
ScalerFitAllRows(X) ==
    LET A  == split.X_all
        n  == Len(A)
        nF == Len(A[1])
        means == Force([f \in 1..nF |-> NDivN(NSum(Column(A, f)), n)])
        variance(f) ==
            NDivN(NSum([i \in 1..n |->
                          LET d == NSub(A[i][f], means[f]) IN NMul(d, d)]), n)
    IN [means |-> means,
        stds  |-> Force([f \in 1..nF |-> StdOrOne(variance(f))])]

\* StandardScaler.fit; X[0].length of an empty matrix throws
ScalerFit(X) ==
    LET n  == Len(X)
        nF == Len(X[1])
        means == Force([f \in 1..nF |-> NDivN(NSum(Column(X, f)), n)])
        variance(f) ==
            NDivN(NSum([i \in 1..n |->
                          LET d == NSub(X[i][f], means[f]) IN NMul(d, d)]), n)
    IN [means |-> means,
        stds  |-> Force([f \in 1..nF |-> StdOrOne(variance(f))])]

\* StandardScaler.transformSingle
ScalerTransformSingle(sc, x) ==
    Force([f \in Idx(x) |-> NDiv(NSub(x[f], At(sc.means, f - 1)), At(sc.stds, f - 1))])

\* StandardScaler.transform
ScalerTransform(sc, X) == Force([i \in Idx(X) |-> ScalerTransformSingle(sc, X[i])])

\* StandardScaler.toJSON / StandardScaler.load
ScalerToJSON(sc) == [means |-> sc.means, stds |-> sc.stds]
ScalerLoad(json) == [means |-> json.means, stds |-> json.stds]

----------------------------------------------------------------------------
(* MultivariateLinearRegression (imported library), one output column,     *)
(* intercept: true.  The least-squares weights are computed from the       *)
(* centred normal equations; a singular system takes the pseudo-inverse.   *)
(* The model covers one or two input columns.                              *)

MlrName == "multivariateLinearRegression"

\* the weight of a single column with variance s and covariance g with y
MlrSolve1(s, g) == <<IF s = 0 THEN 0 ELSE NDiv(g, s)>>

\* the weights of two columns with covariance matrix ((a, b), (b, c)) and
\* covariances g1, g2 with y; det and tr are its determinant and trace
MlrSolve2(a, b, c, g1, g2, det, tr) ==
    IF IsFiniteNum(det) /\ det # 0
    THEN <<NDiv(NSub(NMul(g1, c), NMul(g2, b)), det),
           NDiv(NSub(NMul(g2, a), NMul(g1, b)), det)>>
    ELSE IF tr = 0 THEN <<0, 0>>
    ELSE <<NDiv(NDiv(NAdd(NMul(a, g1), NMul(b, g2)), tr), tr),
           NDiv(NDiv(NAdd(NMul(b, g1), NMul(c, g2)), tr), tr)>>

\* the model with weights w for column means mx and target mean my
MlrModel(w, mx, my) ==
    [weights |-> w \o <<NSub(my, NSum([f \in Idx(w) |-> NMul(w[f], mx[f])]))>>,
     inputs |-> Len(w), outputs |-> 1, intercept |-> TRUE]

\* the fit on X and y centred at the column means mx and the target mean my
MlrFitCentred(X, y, mx, my) ==
    LET n  == Len(X)
        nF == Len(X[1])
        S(f, g) == NSum([i \in 1..n |->
                      NMul(NSub(X[i][f], mx[f]), NSub(X[i][g], mx[g]))])
        G(f) == NSum([i \in 1..n |-> NMul(NSub(X[i][f], mx[f]), NSub(y[i], my))])
    IN IF nF = 1
       THEN MlrModel(MlrSolve1(S(1, 1), G(1)), mx, my)
       ELSE MlrModel(MlrSolve2(S(1, 1), S(1, 2), S(2, 2), G(1), G(2),
                               NSub(NMul(S(1, 1), S(2, 2)), NMul(S(1, 2), S(1, 2))),
                               NAdd(S(1, 1), S(2, 2))),
                     mx, my)

MlrFit(X, y) ==
    MlrFitCentred(X, y,
                  Force([f \in Idx(X[1]) |-> NDivN(NSum(Column(X, f)), Len(X))]),
                  NDivN(NSum(y), Len(X)))

\* MultivariateLinearRegression._predict for one row
MlrPredictSingle(m, x) ==
    NAdd(m.weights[m.inputs + 1],
         NSum([i \in 1..m.inputs |-> NMul(m.weights[i], At(x, i - 1))]))

MlrPredict(m, X) == Force([i \in Idx(X) |-> MlrPredictSingle(m, X[i])])

MlrToJSON(m) ==
    [name |-> MlrName, weights |-> m.weights, inputs |-> m.inputs,
     outputs |-> m.outputs, intercept |-> m.intercept]

\* MultivariateLinearRegression.load throws on a foreign or incomplete object
MlrLoadable(json) ==
    /\ {"name", "weights", "inputs", "outputs", "intercept"} \subseteq DOMAIN json
    /\ json.name = MlrName

MlrLoad(json) ==
    [weights |-> json.weights, inputs |-> json.inputs, outputs |-> json.outputs,
     intercept |-> json.intercept]

----------------------------------------------------------------------------
(* DecisionStump                                                           *)

\* Array.prototype.sort((a, b) => a.val - b.val): stable; a NaN difference
\* counts as 0.  InsertSorted places e after the entries it does not precede.
RECURSIVE InsertSorted(_, _, _)
InsertSorted(srt, e, k) ==
    IF k = 0 THEN <<e>> \o srt
    ELSE LET d == NSub(srt[k].val, e.val)
         IN IF ~IsNaN(d) /\ d > 0
            THEN InsertSorted(srt, e, k - 1)
            ELSE SubSeq(srt, 1, k) \o <<e>> \o SubSeq(srt, k + 1, Len(srt))

RECURSIVE SortByValTo(_, _)
SortByValTo(s, k) ==
    IF k = 0 THEN <<>>
    ELSE LET srt == SortByValTo(s, k - 1) IN InsertSorted(srt, s[k], Len(srt))

SortByVal(s) == SortByValTo(s, Len(s))

NewStump == [feature |-> 0, threshold |-> 0, leftVal |-> 0, rightVal |-> 0]

\* the inner loop over k of DecisionStump.train for feature f (counted from 0);
\* acc carries the stump so far, bestMSE and the running sums
RECURSIVE StumpSweep(_, _, _, _, _)
StumpSweep(srt, f, k, n, acc) ==
    IF k >= n - 1 THEN acc
    ELSE LET v    == srt[k + 1].res
             lS   == NAdd(acc.leftSum, v)
             lSq  == NAdd(acc.leftSumSq, NMul(v, v))
             rS   == NSub(acc.rightSum, v)
             rSq  == NSub(acc.rightSumSq, NMul(v, v))
             moved == [acc EXCEPT !.leftSum = lS, !.leftSumSq = lSq,
                                  !.rightSum = rS, !.rightSumSq = rSq]
             lc   == k + 1
             rc   == n - k - 1
             leftMSE  == NSub(lSq, NDivN(NMul(lS, lS), lc))
             rightMSE == NSub(rSq, NDivN(NMul(rS, rS), rc))
             totalMSE == NAdd(leftMSE, rightMSE)
         IN IF NEq(srt[k + 1].val, srt[k + 2].val)
            THEN StumpSweep(srt, f, k + 1, n, moved)
            ELSE IF NLt(totalMSE, acc.bestMSE)
            THEN StumpSweep(srt, f, k + 1, n,
                   [moved EXCEPT !.bestMSE = totalMSE,
                      !.stump = [feature   |-> f,
                                 threshold |-> NDivN(NAdd(srt[k + 1].val, srt[k + 2].val), 2),
                                 leftVal   |-> NDivN(lS, lc),
                                 rightVal  |-> NDivN(rS, rc)]])
            ELSE StumpSweep(srt, f, k + 1, n, moved)

\* the outer loop over the features f..nFeatures-1
RECURSIVE StumpFeatures(_, _, _, _, _)
StumpFeatures(X, residuals, f, nFeatures, acc) ==
    IF f >= nFeatures THEN acc
    ELSE LET n   == Len(X)
             srt == SortByVal(Force([i \in 1..n |->
                                       [val |-> X[i][f + 1], res |-> residuals[i]]]))
             start == [acc EXCEPT !.leftSum = 0, !.leftSumSq = 0,
                          !.rightSum = NSum([i \in 1..n |-> srt[i].res]),
                          !.rightSumSq = NSum([i \in 1..n |-> NMul(srt[i].res, srt[i].res)])]
         IN StumpFeatures(X, residuals, f + 1, nFeatures, StumpSweep(srt, f, 0, n, start))

\* DecisionStump.train
StumpTrain(X, residuals) ==
    IF Len(X) = 0 \/ Len(X[1]) = 0 THEN NewStump
    ELSE StumpFeatures(X, residuals, 0, Len(X[1]),
            [stump |-> NewStump, bestMSE |-> PInf, leftSum |-> 0, leftSumSq |-> 0,
             rightSum |-> 0, rightSumSq |-> 0]).stump

\* DecisionStump.predictSingle
StumpPredictSingle(st, x) ==
    IF NLe(At(x, st.feature), st.threshold) THEN st.leftVal ELSE st.rightVal

\* a toJSON that writes the two leaf values under each other's name
StumpToJSONSwapped(st) ==
    [feature |-> st.feature, threshold |-> st.threshold,
     leftVal |-> st.rightVal, rightVal |-> st.leftVal]

StumpToJSON(st) ==
    [feature |-> st.feature, threshold |-> st.threshold,
     leftVal |-> st.leftVal, rightVal |-> st.rightVal]

\* DecisionStump.load; a missing field loads as undefined
Field(json, name) == IF name \in DOMAIN json THEN json[name] ELSE NaN

StumpLoad(json) ==
    [feature |-> Field(json, "feature"), threshold |-> Field(json, "threshold"),
     leftVal |-> Field(json, "leftVal"), rightVal |-> Field(json, "rightVal")]

----------------------------------------------------------------------------
(* GradientBoostingRegressor                                               *)

GbmRoundsFinal == 80
GbmRoundsCV == 30
GbmYieldEvery == 10
\* learningRate 0.05, in fixed point
LearningRate == (5 * SCALE) \div 100

\* a train() that starts from 0 instead of the mean of y
GbmStartFromZero(y, nEstimators, learningRate) ==
    [initialPred |-> 0, estimators |-> <<>>,
     nEstimators |-> nEstimators, learningRate |-> learningRate,
     preds |-> Force([i \in Idx(y) |-> 0]),
     residuals |-> Force([i \in Idx(y) |-> y[i]]),
     iter |-> 0]

\* the state of train() before the first round
GbmStart(y, nEstimators, learningRate) ==
    LET n == Len(y)
        initialPred == NDivN(NSum(y), n)
    IN [initialPred |-> initialPred, estimators |-> <<>>,
        nEstimators |-> nEstimators, learningRate |-> learningRate,
        preds |-> Force([i \in 1..n |-> initialPred]),
        residuals |-> Force([i \in 1..n |-> NSub(y[i], initialPred)]),
        iter |-> 0]

\* one pass of the body of the for loop of train()
GbmRound(g, X, y) ==
    LET Updated(stump, preds) ==
            [g EXCEPT !.estimators = Append(@, stump),
                      !.preds = preds,
                      !.residuals = Force([i \in Idx(y) |-> NSub(y[i], preds[i])]),
                      !.iter = @ + 1]
        Pushed(stump) ==
            Updated(stump, Force([i \in Idx(y) |->
                NAdd(g.preds[i], NMul(g.learningRate, StumpPredictSingle(stump, X[i])))]))
    IN Pushed(StumpTrain(X, g.residuals))

\* the state of train() after r more rounds
RECURSIVE GbmAfterRounds(_, _, _, _)
GbmAfterRounds(g, X, y, r) ==
    IF r = 0 THEN g ELSE GbmAfterRounds(GbmRound(g, X, y), X, y, r - 1)

\* a train() that never suspends: every remaining round
RECURSIVE GbmAllRounds(_, _, _)
GbmAllRounds(g, X, y) ==
    LET After(g1) == IF g1.iter >= g1.nEstimators THEN g1 ELSE GbmAllRounds(g1, X, y)
    IN After(GbmRound(g, X, y))

\* the rounds from one suspension point to the next (or to the end of the loop)
RECURSIVE GbmRoundsUntilYield(_, _, _)
GbmRoundsUntilYield(g, X, y) ==
    LET After(g1) ==
            IF g1.iter >= g1.nEstimators \/ g1.iter % GbmYieldEvery = 0 THEN g1
            ELSE GbmRoundsUntilYield(g1, X, y)
    IN After(GbmRound(g, X, y))

\* GradientBoostingRegressor.predict for one row: pred starts at initialPred
\* and every stump adds learningRate * stump.predictSingle(x), in order
GbmPredictSingle(g, x) ==
    LET adds == Force([k \in Idx(g.estimators) |->
                   NMul(g.learningRate, StumpPredictSingle(g.estimators[k], x))])
    IN NSumFrom(adds, 1, Len(adds), g.initialPred)

GbmPredict(g, X) == Force([i \in Idx(X) |-> GbmPredictSingle(g, X[i])])

GbmToJSON(g) ==
    [name |-> "gradientBoosting", initialPred |-> g.initialPred,
     nEstimators |-> g.nEstimators, learningRate |-> g.learningRate,
     estimators |-> Force([k \in Idx(g.estimators) |-> StumpToJSON(g.estimators[k])])]

\* GradientBoostingRegressor.load throws when json.estimators is no array
GbmLoadable(json) == "estimators" \in DOMAIN json

GbmLoad(json) ==
    [initialPred |-> Field(json, "initialPred"),
     nEstimators |-> IF "nEstimators" \in DOMAIN json THEN json.nEstimators ELSE GbmRoundsFinal,
     learningRate |-> IF "learningRate" \in DOMAIN json THEN json.learningRate ELSE LearningRate,
     estimators |-> Force([k \in Idx(json.estimators) |-> StumpLoad(json.estimators[k])])]

----------------------------------------------------------------------------
(* ExtraTree                                                               *)

MaxDepthFinal == 6
MaxDepthCV == 5
MinLeaf == 5

\* rng() * d, with rng() = s / 0x100000000
RngTimes(s, d) ==
    IF IsNaN(d) THEN NaN
    ELSE IF IsInf(d) THEN (IF s = <<0, 0>> THEN NaN ELSE d)
    ELSE U32FloorMul(s, d)

\* the loop over the node's rows that finds min and max of feature f
RECURSIVE MinMaxFrom(_, _, _, _, _)
MinMaxFrom(X, f, i, mn, mx) ==
    IF i > Len(X) THEN <<mn, mx>>
    ELSE LET v == X[i][f + 1]
         IN MinMaxFrom(X, f, i + 1, IF NLt(v, mn) THEN v ELSE mn,
                                    IF NLt(mx, v) THEN v ELSE mx)

GoesLeft(x, f, threshold) == NLe(At(x, f), threshold)

\* the loop over the features of the subset in buildNode; acc carries
\* bestScore, bestFeature, bestThreshold and the generator state
RECURSIVE TreeFeatures(_, _, _, _, _)
TreeFeatures(X, y, features, k, acc) ==
    IF k > Len(features) THEN acc
    ELSE LET f == features[k]
             n == Len(y)
             \* the pass once the score of the split is known
             Scored(drawn, threshold, lCount, rCount, score) ==
                 IF lCount < MinLeaf \/ rCount < MinLeaf THEN drawn
                 ELSE IF NLt(score, acc.bestScore)
                 THEN [drawn EXCEPT !.bestScore = score, !.bestFeature = f,
                                    !.bestThreshold = threshold]
                 ELSE drawn
             \* the rows L go left of threshold
             Parted(drawn, threshold, L) ==
                 LET lCount == Cardinality(L)
                     rCount == n - lCount
                     lSum   == NSum([i \in 1..n |-> IF i \in L THEN y[i] ELSE 0])
                     rSum   == NSum([i \in 1..n |-> IF i \in L THEN 0 ELSE y[i]])
                     lSumSq == NSum([i \in 1..n |-> IF i \in L THEN NMul(y[i], y[i]) ELSE 0])
                     rSumSq == NSum([i \in 1..n |-> IF i \in L THEN 0 ELSE NMul(y[i], y[i])])
                 IN Scored(drawn, threshold, lCount, rCount,
                           NAdd(NSub(lSumSq, NDivN(NMul(lSum, lSum), lCount)),
                                NSub(rSumSq, NDivN(NMul(rSum, rSum), rCount))))
             Drawn(rng, threshold) ==
                 Parted([acc EXCEPT !.rng = rng], threshold,
                        {i \in 1..n : GoesLeft(X[i], f, threshold)})
             \* the feature ranges over mm[1]..mm[2] in the node's rows
             Ranged(mm, rng) ==
                 IF mm[1] = mm[2] /\ ~IsNaN(mm[1]) THEN acc
                 ELSE Drawn(rng, NAdd(mm[1], RngTimes(rng, NSub(mm[2], mm[1]))))
         IN TreeFeatures(X, y, features, k + 1,
                         Ranged(MinMaxFrom(X, f, 1, PInf, NInf), LcgNext(acc.rng)))

\* ExtraTree.buildNode; returns the node and the generator state it leaves
RECURSIVE BuildNode(_, _, _, _, _, _)
BuildNode(X, y, features, depth, maxDepth, rng) ==
    LET n == Len(y)
        Sub(idx, s) == BuildNode(Force([j \in Idx(idx) |-> X[idx[j]]]),
                                 Force([j \in Idx(idx) |-> y[idx[j]]]),
                                 features, depth + 1, maxDepth, s)
        Joined(mean, best, l, r) ==
            [node |-> [value |-> mean, feature |-> best.bestFeature,
                       threshold |-> best.bestThreshold,
                       left |-> l.node, right |-> r.node],
             rng |-> r.rng]
        WithLeft(mean, best, ri, l) == Joined(mean, best, l, Sub(ri, l.rng))
        Chosen(mean, best) ==
            LET Left(i)  == GoesLeft(X[i], best.bestFeature, best.bestThreshold)
                Right(i) == ~Left(i)
            IN IF best.bestFeature = -1
               THEN [node |-> [value |-> mean], rng |-> best.rng]
               ELSE WithLeft(mean, best, SelectSeq([i \in 1..n |-> i], Right),
                             Sub(SelectSeq([i \in 1..n |-> i], Left), best.rng))
        Node(mean) ==
            IF depth >= maxDepth \/ n < MinLeaf * 2
            THEN [node |-> [value |-> mean], rng |-> rng]
            ELSE Chosen(mean, TreeFeatures(X, y, features, 1,
                                [bestScore |-> PInf, bestFeature |-> -1,
                                 bestThreshold |-> 0, rng |-> rng]))
    IN Node(NDivN(NSum(y), n))

\* ExtraTree.predictSingle
RECURSIVE TreePredictSingle(_, _)
TreePredictSingle(node, x) ==
    IF "left" \notin DOMAIN node THEN Field(node, "value")
    ELSE IF NLe(At(x, Field(node, "feature")), Field(node, "threshold"))
         THEN TreePredictSingle(node.left, x)
         ELSE TreePredictSingle(node.right, x)

\* ExtraTree.nodeToJSON
RECURSIVE NodeToJSON(_)
NodeToJSON(n) ==
    IF "left" \notin DOMAIN n THEN [v |-> n.value]
    ELSE [v |-> n.value, f |-> n.feature, t |-> n.threshold,
          l |-> NodeToJSON(n.left), r |-> NodeToJSON(n.right)]

\* ExtraTree.nodeFromJSON reads j.f of every node it visits and throws when a
\* child it descends into is undefined
RECURSIVE NodeLoadable(_)
NodeLoadable(j) ==
    IF "f" \notin DOMAIN j THEN TRUE
    ELSE /\ "l" \in DOMAIN j /\ "r" \in DOMAIN j
         /\ NodeLoadable(j.l) /\ NodeLoadable(j.r)

RECURSIVE NodeFromJSON(_)
NodeFromJSON(j) ==
    IF "f" \notin DOMAIN j THEN [value |-> Field(j, "v")]
    ELSE [value |-> Field(j, "v"), feature |-> j.f, threshold |-> Field(j, "t"),
          left |-> NodeFromJSON(j.l), right |-> NodeFromJSON(j.r)]

----------------------------------------------------------------------------
(* ExtraTreesRegressor                                                     *)

TreesFinal == 50
TreesCV == 10
TreeYieldEvery == 5

\* Math.max(1, Math.round(Math.sqrt(nFeatures)))
KFeatures(nFeatures) ==
    LET r == (ISqrt(4 * nFeatures) + 1) \div 2 IN IF r < 1 THEN 1 ELSE r

\* the bootstrap loop: n draws idx = Math.floor(lcg() * n)
RECURSIVE Bootstrap(_, _, _, _)
Bootstrap(n, j, s, idxs) ==
    IF j >= n THEN [idxs |-> idxs, s |-> s]
    ELSE LET s1 == LcgNext(s)
         IN Bootstrap(n, j + 1, s1, Append(idxs, U32FloorMul(s1, n) + 1))

\* the shuffle of allF: for (j = allF.length - 1; j > 0; j--), j counted from 1 here
RECURSIVE ShuffleFeatures(_, _, _)
ShuffleFeatures(allF, j, s) ==
    IF j <= 1 THEN [allF |-> allF, s |-> s]
    ELSE LET s1 == LcgNext(s)
             k  == U32FloorMul(s1, j) + 1
         IN ShuffleFeatures(Swap(allF, j, k), j - 1, s1)

\* a tree that is allowed one level more than maxDepth
EtTreeDeeper(X, y, i, maxDepth) ==
    LET n         == Len(X)
        nFeatures == Len(X[1])
        boot == Bootstrap(n, 0, U32(SeedBase + i * TreeSeedStep), <<>>)
        shuf == ShuffleFeatures(Force([k \in 1..nFeatures |-> k - 1]), nFeatures, boot.s)
        featureSubset == SubSeq(shuf.allF, 1, KFeatures(nFeatures))
    IN BuildNode(Force([j \in 1..n |-> X[boot.idxs[j]]]),
                 Force([j \in 1..n |-> y[boot.idxs[j]]]),
                 featureSubset, 0, maxDepth + 1, U32Inc(shuf.s)).node

\* the body of the for loop of train() for tree i: the tree it pushes
EtTree(X, y, i, maxDepth) ==
    LET n         == Len(X)
        nFeatures == Len(X[1])
        boot == Bootstrap(n, 0, U32(SeedBase + i * TreeSeedStep), <<>>)
        shuf == ShuffleFeatures(Force([k \in 1..nFeatures |-> k - 1]), nFeatures, boot.s)
        featureSubset == SubSeq(shuf.allF, 1, KFeatures(nFeatures))
    IN BuildNode(Force([j \in 1..n |-> X[boot.idxs[j]]]),
                 Force([j \in 1..n |-> y[boot.idxs[j]]]),
                 featureSubset, 0, maxDepth, U32Inc(shuf.s)).node

EtStart(nEstimators, maxDepth) ==
    [trees |-> <<>>, nEstimators |-> nEstimators, maxDepth |-> maxDepth]

\* the trees built from one suspension point to the next (or to the end)
RECURSIVE EtTreesUntilYield(_, _, _)
EtTreesUntilYield(et, X, y) ==
    LET After(et1) ==
            IF Len(et1.trees) >= et1.nEstimators \/ Len(et1.trees) % TreeYieldEvery = 0
            THEN et1
            ELSE EtTreesUntilYield(et1, X, y)
    IN After([et EXCEPT !.trees = Append(@, EtTree(X, y, Len(et.trees), et.maxDepth))])

\* ExtraTreesRegressor.predict for one row: sum / this.trees.length
EtPredictSingle(et, x) ==
    NDivN(NSum([k \in Idx(et.trees) |-> TreePredictSingle(et.trees[k], x)]),
          Len(et.trees))

EtPredict(et, X) == Force([i \in Idx(X) |-> EtPredictSingle(et, X[i])])

EtToJSON(et) ==
    [name |-> "extraTrees", nEstimators |-> et.nEstimators, maxDepth |-> et.maxDepth,
     trees |-> Force([k \in Idx(et.trees) |-> NodeToJSON(et.trees[k])])]

\* ExtraTreesRegressor.load throws when json.trees is no array or a tree is broken
EtLoadable(json) ==
    /\ "trees" \in DOMAIN json
    /\ \A k \in Idx(json.trees) : NodeLoadable(json.trees[k])

EtLoad(json) ==
    [trees |-> Force([k \in Idx(json.trees) |-> NodeFromJSON(json.trees[k])]),
     nEstimators |-> IF "nEstimators" \in DOMAIN json THEN json.nEstimators ELSE TreesFinal,
     maxDepth |-> IF "maxDepth" \in DOMAIN json THEN json.maxDepth ELSE MaxDepthFinal]

----------------------------------------------------------------------------
(* calculateMetrics                                                        *)

\* sanitize: isFinite(v) && !isNaN(v) ? v : 0
\* a sanitize that lets every value through
SanitizeNothing(v) == v

Sanitize(v) == IF IsFiniteNum(v) THEN v ELSE 0

\* r2 without Math.max(0, ...)
R2Unclamped(ssRes, ssTot) ==
    IF ssTot = 0 THEN 0 ELSE NSub(SCALE, NDiv(ssRes, ssTot))

\* ssTot === 0 ? 0 : Math.max(0, 1 - ssRes / ssTot)
R2Of(ssRes, ssTot) ==
    IF ssTot = 0 THEN 0 ELSE NMax(0, NSub(NOfInt(1), NDiv(ssRes, ssTot)))

\* Math.max(0, Math.min(100, 100 - mape))
AccuracyOf(mape) == NMax(0, NMin(NOfInt(100), NSub(NOfInt(100), mape)))

\* metrics whose mape is averaged over the rows with a nonzero actual only
CalculateMetricsNonzeroMean(actual, predicted) ==
    LET n == Len(actual)
        nz == Cardinality({i \in 1..n : actual[i] # 0})
        err == Force([i \in 1..n |-> NSub(actual[i], At(predicted, i - 1))])
        ssRes == NSum([i \in 1..n |-> NMul(err[i], err[i])])
        absError == NSum([i \in 1..n |-> NAbs(err[i])])
        absPctError == NSum([i \in 1..n |->
                          IF actual[i] # 0 THEN NAbs(NDiv(err[i], actual[i])) ELSE 0])
        meanActual == NDivN(NSum(actual), n)
        ssTot == NSum([i \in 1..n |->
                    LET d == NSub(actual[i], meanActual) IN NMul(d, d)])
        mape == Sanitize(NMulN(NDivN(absPctError, nz), 100))
    IN IF n = 0 THEN [rmse |-> 0, mae |-> 0, r2 |-> 0, mape |-> 0, accuracy |-> 0]
       ELSE [rmse     |-> Sanitize(NSqrt(NDivN(ssRes, n))),
             mae      |-> Sanitize(NDivN(absError, n)),
             r2       |-> Sanitize(R2Of(ssRes, ssTot)),
             mape     |-> mape,
             accuracy |-> Sanitize(AccuracyOf(mape))]

CalculateMetrics(actual, predicted) ==
    LET n == Len(actual)
        err == Force([i \in 1..n |-> NSub(actual[i], At(predicted, i - 1))])
        ssRes == NSum([i \in 1..n |-> NMul(err[i], err[i])])
        absError == NSum([i \in 1..n |-> NAbs(err[i])])
        absPctError == NSum([i \in 1..n |->
                          IF actual[i] # 0 THEN NAbs(NDiv(err[i], actual[i])) ELSE 0])
        meanActual == NDivN(NSum(actual), n)
        ssTot == NSum([i \in 1..n |->
                    LET d == NSub(actual[i], meanActual) IN NMul(d, d)])
        mape == Sanitize(NMulN(NDivN(absPctError, n), 100))
    IN IF n = 0 THEN [rmse |-> 0, mae |-> 0, r2 |-> 0, mape |-> 0, accuracy |-> 0]
       ELSE [rmse     |-> Sanitize(NSqrt(NDivN(ssRes, n))),
             mae      |-> Sanitize(NDivN(absError, n)),
             r2       |-> Sanitize(R2Of(ssRes, ssTot)),
             mape     |-> mape,
             accuracy |-> Sanitize(AccuracyOf(mape))]

----------------------------------------------------------------------------
(* The prediction function of a fitted model of each kind                  *)

KindLinear == "linear"
KindRf == "rf"
KindGbm == "xgboost"
Kinds == <<KindLinear, KindRf, KindGbm>>

TypeOf(kind) ==
    CASE kind = KindLinear -> "Linear Regression"
      [] kind = KindRf -> "Random Forest"
      [] OTHER -> "Gradient Boosting"

\* (Xs) => mlr.predict(scaler.transform(Xs)) / et.predict(Xs) / gbm.predict(Xs)
PredictFn(kind, model, scaler, X) ==
    CASE kind = KindLinear -> MlrPredict(model, ScalerTransform(scaler, X))
      [] kind = KindRf -> EtPredict(model, X)
      [] OTHER -> GbmPredict(model, X)

----------------------------------------------------------------------------
(* computePermutationImportance                                            *)

\* the Fisher-Yates loop over featureVals, i counted from 1 here
RECURSIVE ShuffleVals(_, _, _)
ShuffleVals(vals, i, seed) ==
    IF i <= 1 THEN vals
    ELSE LET sd == LcgNext(seed)
             j  == U32FloorMul(sd, i) + 1
         IN ShuffleVals(Swap(vals, i, j), i - 1, sd)

\* a matrix whose whole rows change places
ShuffledRows(X_test, f) ==
    Force([i \in Idx(X_test) |-> X_test[Len(X_test) + 1 - i]])

\* X_shuffled for feature f (counted from 0)
ShuffledMatrix(X_test, f) ==
    LET vals == ShuffleVals(Column(X_test, f + 1), Len(X_test),
                            U32(SeedBase + f * PermSeedStep))
    IN Force([i \in Idx(X_test) |-> [X_test[i] EXCEPT ![f + 1] = vals[i]]])

\* the raw importance of feature f: Math.max(0, shuffledMSE - baseMSE)
RawImportance(kind, model, scaler, X_test, y_test, f, baselineRMSE) ==
    LET baseMSE == NMul(baselineRMSE, baselineRMSE)
        shuffledPreds == PredictFn(kind, model, scaler, ShuffledMatrix(X_test, f))
        shuffledSSE == NSum([i \in Idx(y_test) |->
                          LET d == NSub(y_test[i], At(shuffledPreds, i - 1))
                          IN NMul(d, d)])
        shuffledMSE == NDivN(shuffledSSE, Len(y_test))
    IN NMax(0, NSub(shuffledMSE, baseMSE))

\* .sort((a, b) => b.importance - a.importance): stable, descending
RECURSIVE InsertByImportance(_, _, _)
InsertByImportance(srt, e, k) ==
    IF k = 0 THEN <<e>> \o srt
    ELSE LET d == NSub(e.importance, srt[k].importance)
         IN IF ~IsNaN(d) /\ d > 0
            THEN InsertByImportance(srt, e, k - 1)
            ELSE SubSeq(srt, 1, k) \o <<e>> \o SubSeq(srt, k + 1, Len(srt))

RECURSIVE SortByImportanceTo(_, _)
SortByImportanceTo(s, k) ==
    IF k = 0 THEN <<>>
    ELSE LET srt == SortByImportanceTo(s, k - 1)
         IN InsertByImportance(srt, s[k], Len(srt))

\* total > 0 ? imp.importance / total : 1 / features.length
NormalizedImportance(raw, total, nFeatures) ==
    IF NLt(0, total) THEN NDiv(raw, total) ELSE NDivN(NOfInt(1), nFeatures)

\* the tail of computePermutationImportance: normalise, then sort
NormalizeImportances(raws, features) ==
    LET total == NSum(raws)
        normed == Force([f \in Idx(features) |->
                     [feature |-> features[f],
                      importance |-> NormalizedImportance(raws[f], total, Len(features))]])
    IN SortByImportanceTo(normed, Len(normed))

----------------------------------------------------------------------------
(* runKFoldCV                                                              *)

NFolds == 5

FoldSize(n) == n \div NFolds
ValStart(n, fold) == fold * FoldSize(n)
\* a last block of the same size as the others
ValEndNoRemainder(n, fold) == ValStart(n, fold) + FoldSize(n)

ValEnd(n, fold) == IF fold = NFolds - 1 THEN n ELSE ValStart(n, fold) + FoldSize(n)

\* s.slice(a, b), a and b counted from 0
Slice(s, a, b) == SubSeq(s, a + 1, b)

FoldVal(s, fold) == Slice(s, ValStart(Len(s), fold), ValEnd(Len(s), fold))
FoldTrain(s, fold) ==
    Slice(s, 0, ValStart(Len(s), fold)) \o Slice(s, ValEnd(Len(s), fold), Len(s))

\* the linear branch of one fold: the predictions on the validation block
CvLinearPreds(X, y, fold) ==
    LET X_tr == FoldTrain(X, fold)
        Scaled(scaler) ==
            MlrPredict(MlrFit(ScalerTransform(scaler, X_tr), FoldTrain(y, fold)),
                       ScalerTransform(scaler, FoldVal(X, fold)))
    IN Scaled(ScalerFit(X_tr))

MetricKeys == <<"rmse", "mae", "r2", "mape", "accuracy">>

\* the mean and the population standard deviation of every metric over the folds
CvSummary(foldMetrics) ==
    LET len == Len(foldMetrics)
        keys == {MetricKeys[k] : k \in Idx(MetricKeys)}
        avg == Force([key \in keys |-> NDivN(NSum([k \in 1..len |-> foldMetrics[k][key]]), len)])
        sd(key) == NSqrt(NDivN(NSum([k \in 1..len |->
                      LET d == NSub(foldMetrics[k][key], avg[key]) IN NMul(d, d)]), len))
    IN [mean |-> avg, std |-> Force([key \in keys |-> sd(key)])]

----------------------------------------------------------------------------
(* The data sets and configurations the worker is started with             *)

MaxRows == 13
MaxClock == 1
MaxRuns == 2

TargetCol == "yield_pct"
FeatureCols == <<"oxygen_flow", "power_mwh">>

\* row i of the generated data: small integers, y near 2*x1 + x2
GenRow(i, shape) ==
    LET x1 == (3 * i + 1) % 8
        x2 == (5 * i + 2) % 6
        y  == IF shape = "constant" THEN 5 ELSE 2 * x1 + x2 + (i % 3)
    IN [yield_pct |-> NumCell(NOfInt(y)), oxygen_flow |-> NumCell(NOfInt(x1)),
        power_mwh |-> NumCell(NOfInt(x2)), heat_id |-> StrCell("H")]

GenData(n, shape) == Force([i \in 1..n |-> GenRow(i, shape)])

\* the values a cell of an uploaded sheet can hold besides a finite number
OddCells ==
    {NumCell(NaN), NumCell(PInf), NumCell(NInf), StrCell(""), StrCell("abc"),
     StrCell("Infinity"), StrCell("7"), NullCell, UndefCell}

InsertAt(s, p, e) == SubSeq(s, 1, p - 1) \o <<e>> \o SubSeq(s, p, Len(s))

Event(label, pct) == [label |-> label, pct |-> pct]

NoCur == [kind |-> "", model |-> <<>>, scaler |-> <<>>, metrics |-> <<>>,
          importance |-> <<>>]
NoLoop == [f |-> 0, raws |-> <<>>, fold |-> 0, foldMetrics |-> <<>>, sub |-> <<>>]
NoSplit == <<>>

----------------------------------------------------------------------------
(* trainModels: the progress events and the artifacts                      *)

\* a test of the first requested kind only
IncludesFirst(models, kind) == Len(models) > 0 /\ models[1] = kind

\* models.includes(kind)
Includes(models, kind) == \E i \in Idx(models) : models[i] = kind

\* a last tick that announces completion
FinalTickDone == Event("Done", 100)

CleanTick == Event("Cleaning data...", 5)
FinalTick == Event("Finalising...", 95)

TrainTick(kind) ==
    CASE kind = KindLinear -> Event("Training Linear Regression...", 10)
      [] kind = KindRf -> Event("Training Random Forest (50 trees)...", 35)
      [] OTHER -> Event("Training Gradient Boosting (80 rounds)...", 65)

ImpTick(kind) ==
    CASE kind = KindLinear -> Event("Computing feature importance (Linear)...", 15)
      [] kind = KindRf -> Event("Computing feature importance (Random Forest)...", 48)
      [] OTHER -> Event("Computing feature importance (Gradient Boosting)...", 75)

CvTick(kind) ==
    CASE kind = KindLinear -> Event("Cross-validating Linear Regression (5 folds)...", 20)
      [] kind = KindRf -> Event("Cross-validating Random Forest (5 folds)...", 55)
      [] OTHER -> Event("Cross-validating Gradient Boosting (5 folds)...", 80)

\* Math.round(a / b) for naturals a, b
RoundDiv(a, b) == (2 * a + b) \div (2 * b)

\* a callback that reports the percentage of its label as the overall percent
RfProgressLabelPct(i, nEstimators) ==
    Event("Training Random Forest...", RoundDiv(i * 50, nEstimators) + 35)

\* the callback handed to et.train, called with pct = i / nEstimators * 100:
\* label Math.round(pct / 2 + 35), percent 35 + Math.round(pct * 0.12)
RfProgress(i, nEstimators) ==
    Event("Training Random Forest (" \o ToString(RoundDiv(i * 50, nEstimators) + 35)
             \o "%)...",
          35 + RoundDiv(i * 12, nEstimators))

IdPrefix(kind) ==
    CASE kind = KindLinear -> "linear-"
      [] kind = KindRf -> "rf-"
      [] OTHER -> "xgb-"

ModelToJSON(kind, model) ==
    CASE kind = KindLinear -> MlrToJSON(model)
      [] kind = KindRf -> EtToJSON(model)
      [] OTHER -> GbmToJSON(model)

\* the object pushed to results for the kind just finished
Artifact(c, cv, cfg, t) ==
    LET common ==
          [id |-> [prefix |-> IdPrefix(c.kind), time |-> t],
           type |-> TypeOf(c.kind),
           metrics |-> c.metrics,
           cvMetrics |-> [mean |-> cv.mean, std |-> cv.std, folds |-> NFolds],
           modelInstance |-> c.model,
           modelJSON |-> ModelToJSON(c.kind, c.model),
           featureImportance |-> c.importance,
           config |-> cfg]
    IN IF c.kind = KindLinear
       THEN common @@ [scalerJSON |-> ScalerToJSON(c.scaler)]
       ELSE common

\* the live object of a finished GradientBoostingRegressor (train()'s locals dropped)
GbmInstance(g) ==
    [initialPred |-> g.initialPred, estimators |-> g.estimators,
     nEstimators |-> g.nEstimators, learningRate |-> g.learningRate]

\* position in code order of the first requested kind after position k, or 0
NextKindIdx(models, k) ==
    LET S == {i \in (k + 1)..Len(Kinds) : Includes(models, Kinds[i])}
    IN IF S = {} THEN 0 ELSE CHOOSE i \in S : \A j \in S : i <= j

KindIdx(kind) == CHOOSE i \in Idx(Kinds) : Kinds[i] = kind

\* { ...m, modelInstance: null }
NullInstance == <<>>

\* a copy that keeps the live object
KeepInstance(m) == m

Strip(m) == [m EXCEPT !.modelInstance = NullInstance]

NotEnoughRows(count) == [text |-> "Not enough valid data rows", count |-> count]
TypeErrorMsg == [text |-> "Cannot read properties of undefined (reading 'length')", count |-> 0]

----------------------------------------------------------------------------
(* reconstructModel and predictWithModel                                   *)

NullResult == [isNull |-> TRUE, value |-> 0]
NumberResult(v) == [isNull |-> FALSE, value |-> v]

\* !modelData.modelJSON
HasModelJSON(m) == "modelJSON" \in DOMAIN m

\* reconstructModel returns a model (not null): the type is known and load
\* does not throw
Reconstructs(m) ==
    /\ HasModelJSON(m)
    /\ \/ m.type = "Random Forest" /\ EtLoadable(m.modelJSON)
       \/ m.type = "Gradient Boosting" /\ GbmLoadable(m.modelJSON)
       \/ m.type = "Linear Regression" /\ MlrLoadable(m.modelJSON)

\* StandardScaler.load(json).transformSingle(x) throws when json.means or
\* json.stds is no array
ScalerUsable(json) == {"means", "stds"} \subseteq DOMAIN json

PredictWithModel(m, x) ==
    IF ~Reconstructs(m) THEN NullResult
    ELSE IF m.type = "Linear Regression"
    THEN IF "scalerJSON" \in DOMAIN m
         THEN IF ScalerUsable(m.scalerJSON)
              THEN NumberResult(MlrPredictSingle(MlrLoad(m.modelJSON),
                      ScalerTransformSingle(ScalerLoad(m.scalerJSON), x)))
              ELSE NullResult
         ELSE NumberResult(MlrPredictSingle(MlrLoad(m.modelJSON), x))
    ELSE IF m.type = "Random Forest"
    THEN NumberResult(EtPredictSingle(EtLoad(m.modelJSON), x))
    ELSE NumberResult(GbmPredictSingle(GbmLoad(m.modelJSON), x))

\* ways a stored artifact can be damaged before the host reads it back
Damages == {"none", "noModelJSON", "unknownType", "emptyObject", "emptyEnsemble"}

DropField(r, name) == Force([k \in DOMAIN r \ {name} |-> r[k]])

Damage(m, how) ==
    CASE how = "noModelJSON" -> DropField(m, "modelJSON")
      [] how = "unknownType" -> [m EXCEPT !.type = "Neural Network"]
      [] how = "emptyObject" -> [m EXCEPT !.modelJSON = [name |-> "?"]]
      [] how = "emptyEnsemble" ->
            (IF m.type = "Random Forest" THEN [m EXCEPT !.modelJSON.trees = <<>>]
             ELSE IF m.type = "Gradient Boosting"
                  THEN [m EXCEPT !.modelJSON.estimators = <<>>]
                  ELSE [m EXCEPT !.scalerJSON = [stds |-> <<>>]])
      [] OTHER -> m

----------------------------------------------------------------------------
(* The worker and trainModels as a state machine.  pc names the await at   *)
(* which the run is suspended; an action is the code that runs from one    *)
(* await to the next.                                                      *)

\* what follows block k of trainModels (k = 0: the split): the tick of the
\* next requested kind, or the final tick
Proceed(k, prog) ==
    LET nk == NextKindIdx(config.models, k)
    IN IF nk = 0
       THEN /\ progress' = Append(prog, FinalTick)
            /\ pc' = "tick_final"
            /\ cur' = NoCur
       ELSE /\ progress' = Append(prog, TrainTick(Kinds[nk]))
            /\ pc' = "tick_train"
            /\ cur' = [NoCur EXCEPT !.kind = Kinds[nk]]

\* a catch that also posts the artifacts of the kinds finished so far
FailWithPartial(msg) ==
    /\ pc' = "failed"
    /\ outbox' = outbox \o <<[type |-> "error", message |-> msg],
                             [type |-> "result", models |-> results]>>

\* an exception leaves trainModels; the worker's catch posts it
Fail(msg) ==
    /\ pc' = "failed"
    /\ outbox' = Append(outbox, [type |-> "error", message |-> msg])

\* self.onmessage: trainModels is called and awaits its first tick
Receive ==
    /\ pc = "idle"
    /\ progress' = Append(progress, CleanTick)
    /\ pc' = "tick_clean"
    /\ UNCHANGED <<data, config, now, outbox, split, results, cur, loop, run, prev,
                   live, lastPred, call, host>>

\* filter, count check, matrix, shuffle, split, then the first tick
Clean ==
    /\ pc = "tick_clean"
    /\ LET clean == CleanData(data, config)
       IN IF Len(clean) < MinCleanRows
          THEN /\ Fail(NotEnoughRows(Len(clean)))
               /\ UNCHANGED <<progress, split, results, cur>>
          ELSE /\ split' = MakeSplit(Shuffle(MakePairs(clean, config)), config.testSplit)
               /\ results' = <<>>
               /\ Proceed(0, progress)
               /\ UNCHANGED outbox
    /\ UNCHANGED <<data, config, now, loop, run, prev, live, lastPred, call, host>>

\* the linear block up to the tick that announces the importance
TrainLinear ==
    /\ pc = "tick_train"
    /\ cur.kind = KindLinear
    /\ IF Len(split.X_train) = 0
       THEN /\ Fail(TypeErrorMsg)
            /\ UNCHANGED <<progress, cur>>
       ELSE \E scaler \in {ScalerFit(split.X_train)} :
            \E mlr \in {MlrFit(ScalerTransform(scaler, split.X_train), split.y_train)} :
               /\ cur' = [cur EXCEPT !.model = mlr, !.scaler = scaler,
                             !.metrics = CalculateMetrics(split.y_test,
                                 MlrPredict(mlr, ScalerTransform(scaler, split.X_test)))]
               /\ progress' = Append(progress, ImpTick(KindLinear))
               /\ pc' = "tick_imp"
               /\ UNCHANGED outbox
    /\ UNCHANGED <<data, config, now, split, results, loop, run, prev, live, lastPred, call,
                   host>>

\* new ExtraTreesRegressor; et.train reaches its first suspension (i = 0)
StartRf ==
    /\ pc = "tick_train"
    /\ cur.kind = KindRf
    /\ IF Len(split.X_train) = 0
       THEN /\ Fail(TypeErrorMsg)
            /\ UNCHANGED loop
       ELSE /\ loop' = [NoLoop EXCEPT !.sub = EtStart(TreesFinal, MaxDepthFinal)]
            /\ pc' = "train_yield"
            /\ UNCHANGED outbox
    /\ UNCHANGED <<data, config, now, progress, split, results, cur, run, prev, live,
                   lastPred, call, host>>

\* et.train resumes: the progress callback, then the trees up to the next
\* suspension; after the last tree, predictions, metrics and the next tick
RfTrees ==
    /\ pc = "train_yield"
    /\ cur.kind = KindRf
    /\ \E et1 \in {EtTreesUntilYield(loop.sub, split.X_train, split.y_train)} :
       LET prog1 == Append(progress, RfProgress(Len(loop.sub.trees), loop.sub.nEstimators))
       IN IF Len(et1.trees) < et1.nEstimators
          THEN /\ loop' = [loop EXCEPT !.sub = et1]
               /\ progress' = prog1
               /\ UNCHANGED <<pc, cur>>
          ELSE /\ cur' = [cur EXCEPT !.model = et1,
                             !.metrics = CalculateMetrics(split.y_test,
                                                          EtPredict(et1, split.X_test))]
               /\ loop' = NoLoop
               /\ progress' = Append(prog1, ImpTick(KindRf))
               /\ pc' = "tick_imp"
    /\ UNCHANGED <<data, config, now, outbox, split, results, run, prev, live, lastPred, call,
                   host>>

\* new GradientBoostingRegressor; gbm.train reaches its first suspension (iter = 0)
StartGbm ==
    /\ pc = "tick_train"
    /\ cur.kind = KindGbm
    /\ loop' = [NoLoop EXCEPT !.sub = GbmStart(split.y_train, GbmRoundsFinal, LearningRate)]
    /\ pc' = "train_yield"
    /\ UNCHANGED <<data, config, now, progress, outbox, split, results, cur, run,
                   prev, live, lastPred, call, host>>

\* gbm.train resumes: the rounds up to the next suspension; after the last
\* round, predictions, metrics and the next tick
GbmRounds ==
    /\ pc = "train_yield"
    /\ cur.kind = KindGbm
    /\ \E g1 \in {GbmRoundsUntilYield(loop.sub, split.X_train, split.y_train)} :
          IF g1.iter < g1.nEstimators
          THEN /\ loop' = [loop EXCEPT !.sub = g1]
               /\ UNCHANGED <<pc, cur, progress>>
          ELSE /\ cur' = [cur EXCEPT !.model = GbmInstance(g1),
                             !.metrics = CalculateMetrics(split.y_test,
                                            GbmPredict(GbmInstance(g1), split.X_test))]
               /\ loop' = NoLoop
               /\ progress' = Append(progress, ImpTick(KindGbm))
               /\ pc' = "tick_imp"
    /\ UNCHANGED <<data, config, now, outbox, split, results, run, prev, live, lastPred, call,
                   host>>

\* a block that goes from the evaluation straight to cross-validation
SkipImportance ==
    /\ pc = "tick_imp"
    /\ progress' = Append(progress, CvTick(cur.kind))
    /\ pc' = "tick_cv"
    /\ UNCHANGED <<data, config, now, outbox, split, results, cur, loop, run, prev,
                   live, lastPred, call, host>>

\* computePermutationImportance is entered and suspends before feature 0
EnterImportance ==
    /\ pc = "tick_imp"
    /\ IF Len(config.features) = 0
       THEN /\ cur' = [cur EXCEPT !.importance = <<>>]
            /\ progress' = Append(progress, CvTick(cur.kind))
            /\ pc' = "tick_cv"
            /\ UNCHANGED loop
       ELSE /\ loop' = [NoLoop EXCEPT !.f = 0]
            /\ pc' = "imp_yield"
            /\ UNCHANGED <<cur, progress>>
    /\ UNCHANGED <<data, config, now, outbox, split, results, run, prev, live, lastPred, call,
                   host>>

\* the body of the loop for feature loop.f; after the last feature the
\* normalisation and the sort, then the tick that announces cross-validation
ImportanceFeature ==
    /\ pc = "imp_yield"
    /\ \E raw \in {RawImportance(cur.kind, cur.model, cur.scaler, split.X_test,
                                 split.y_test, loop.f, cur.metrics.rmse)} :
       LET raws1 == Append(loop.raws, raw)
       IN IF loop.f + 1 < Len(config.features)
          THEN /\ loop' = [loop EXCEPT !.f = @ + 1, !.raws = raws1]
               /\ UNCHANGED <<pc, cur, progress>>
          ELSE /\ cur' = [cur EXCEPT !.importance =
                                        NormalizeImportances(raws1, config.features)]
               /\ loop' = NoLoop
               /\ progress' = Append(progress, CvTick(cur.kind))
               /\ pc' = "tick_cv"
    /\ UNCHANGED <<data, config, now, outbox, split, results, run, prev, live, lastPred, call,
                   host>>

\* runKFoldCV is entered and suspends before fold 0
EnterCV ==
    /\ pc = "tick_cv"
    /\ loop' = [NoLoop EXCEPT !.fold = 0]
    /\ pc' = "cv_yield"
    /\ UNCHANGED <<data, config, now, progress, outbox, split, results, cur, run,
                   prev, live, lastPred, call, host>>

\* a runKFoldCV whose loop starts the same fold again
RepeatFold(m) ==
    /\ pc' = "cv_yield"
    /\ UNCHANGED <<loop, results, live, cur, progress, now>>

\* the end of a fold with metrics m: the next fold's suspension, or the end
\* of runKFoldCV, results.push and what follows the block.  Date.now() reads
\* a clock that never runs backwards.
FinishFold(m) ==
    LET fm == Append(loop.foldMetrics, m)
    IN IF loop.fold + 1 < NFolds
       THEN /\ loop' = [NoLoop EXCEPT !.fold = loop.fold + 1, !.foldMetrics = fm]
            /\ pc' = "cv_yield"
            /\ UNCHANGED <<results, live, cur, progress, now>>
       ELSE LET cv == CvSummary(fm)
            IN /\ \E t \in now..MaxClock :
                     /\ now' = t
                     /\ results' = Append(results, Artifact(cur, cv, config, t))
               /\ live' = Append(live, [kind |-> cur.kind, model |-> cur.model,
                                        scaler |-> cur.scaler])
               /\ loop' = NoLoop
               /\ Proceed(KindIdx(cur.kind), progress)

\* a fold of the linear model runs without suspension
CvFoldLinear ==
    /\ pc = "cv_yield"
    /\ cur.kind = KindLinear
    /\ FinishFold(CalculateMetrics(FoldVal(split.y_all, loop.fold),
                                   CvLinearPreds(split.X_all, split.y_all, loop.fold)))
    /\ UNCHANGED <<data, config, outbox, split, run, prev, lastPred, call, host>>

\* a fold of the forest: et.train of the fold's model reaches its first suspension
CvFoldStartRf ==
    /\ pc = "cv_yield"
    /\ cur.kind = KindRf
    /\ loop' = [loop EXCEPT !.sub = EtStart(TreesCV, MaxDepthCV)]
    /\ pc' = "cv_train_yield"
    /\ UNCHANGED <<data, config, now, progress, outbox, split, results, cur, run,
                   prev, live, lastPred, call, host>>

CvRfTrees ==
    /\ pc = "cv_train_yield"
    /\ cur.kind = KindRf
    /\ \E et1 \in {EtTreesUntilYield(loop.sub, FoldTrain(split.X_all, loop.fold),
                                     FoldTrain(split.y_all, loop.fold))} :
          IF Len(et1.trees) < et1.nEstimators
          THEN /\ loop' = [loop EXCEPT !.sub = et1]
               /\ UNCHANGED <<pc, cur, progress, results, live, now>>
          ELSE FinishFold(CalculateMetrics(FoldVal(split.y_all, loop.fold),
                             EtPredict(et1, FoldVal(split.X_all, loop.fold))))
    /\ UNCHANGED <<data, config, outbox, split, run, prev, lastPred, call, host>>

\* a fold of the boosting model: gbm.train reaches its first suspension
CvFoldStartGbm ==
    /\ pc = "cv_yield"
    /\ cur.kind = KindGbm
    /\ loop' = [loop EXCEPT !.sub = GbmStart(FoldTrain(split.y_all, loop.fold),
                                             GbmRoundsCV, LearningRate)]
    /\ pc' = "cv_train_yield"
    /\ UNCHANGED <<data, config, now, progress, outbox, split, results, cur, run,
                   prev, live, lastPred, call, host>>

CvGbmRounds ==
    /\ pc = "cv_train_yield"
    /\ cur.kind = KindGbm
    /\ \E g1 \in {GbmRoundsUntilYield(loop.sub, FoldTrain(split.X_all, loop.fold),
                                      FoldTrain(split.y_all, loop.fold))} :
          IF g1.iter < g1.nEstimators
          THEN /\ loop' = [loop EXCEPT !.sub = g1]
               /\ UNCHANGED <<pc, cur, progress, results, live, now>>
          ELSE FinishFold(CalculateMetrics(FoldVal(split.y_all, loop.fold),
                             GbmPredict(GbmInstance(g1), FoldVal(split.X_all, loop.fold))))
    /\ UNCHANGED <<data, config, outbox, split, run, prev, lastPred, call, host>>

\* trainModels returns; the worker strips modelInstance and posts the result
Finalise ==
    /\ pc = "tick_final"
    /\ outbox' = Append(outbox, [type |-> "result",
                                 models |-> Force([k \in Idx(results) |->
                                                     Strip(results[k])])])
    /\ pc' = "done"
    /\ UNCHANGED <<data, config, now, progress, split, results, cur, loop, run, prev,
                   live, lastPred, call, host>>

----------------------------------------------------------------------------
(* The host: predictions from stored artifacts, and a second run           *)

MaxInputLen == 3

InputValues == {NOfInt(1), NOfInt(4), NOfInt(6)}
InputVectors == UNION {[1..len -> InputValues] : len \in 0..MaxInputLen}

\* no function has been applied on its own
NoCall == [fn |-> ""]

MaxWorkers == 2

NoPage == [isTraining |-> FALSE, progress |-> 0, label |-> "", results |-> <<>>,
           error |-> ""]

\* no page, no worker, an empty store and an empty table
NoHost ==
    [mode |-> "", mounted |-> FALSE, pool |-> TRUE, current |-> 0, ref |-> 0,
     live |-> {}, left |-> [w \in 1..MaxWorkers |-> <<>>], seen |-> 0,
     handled |-> [w |-> 0, n |-> 0], added |-> <<>>, page |-> NoPage,
     store |-> <<>>, persisted |-> <<>>, posts |-> <<>>, db |-> <<>>,
     synced |-> FALSE, clientGone |-> FALSE, discarded |-> FALSE]

NoPred == [k |-> 0, x |-> <<>>, damage |-> "none", out |-> NullResult]

\* a call of the exported predictWithModel on an artifact of the result
\* message (modelInstance already null), possibly damaged in storage, with an
\* input vector of the configured length or one element shorter or longer
Predict ==
    /\ pc = "done"
    /\ \E k \in Idx(outbox[Len(outbox)].models), x \in InputVectors, how \in Damages :
          /\ Len(x) >= Len(config.features) - 1
          /\ Len(x) <= Len(config.features) + 1
          /\ how # "none" => Len(x) = Len(config.features)
          /\ lastPred' = [k |-> k, x |-> x, damage |-> how,
                          out |-> PredictWithModel(
                                     Damage(outbox[Len(outbox)].models[k], how), x)]
    /\ pc' = "predicted"
    /\ UNCHANGED <<data, config, now, progress, outbox, split, results, cur, loop,
                   run, prev, live, call, host>>

\* the same data and config are posted to a fresh worker, not earlier than
\* the run before
Rerun ==
    /\ pc \in {"done", "failed"}
    /\ run < MaxRuns
    /\ prev' = [progress |-> progress, outbox |-> outbox]
    /\ run' = run + 1
    /\ \E t \in now..MaxClock : now' = t
    /\ pc' = "idle"
    /\ progress' = <<>>
    /\ outbox' = <<>>
    /\ split' = NoSplit
    /\ results' = <<>>
    /\ live' = <<>>
    /\ cur' = NoCur
    /\ loop' = NoLoop
    /\ UNCHANGED <<data, config, lastPred, call, host>>

----------------------------------------------------------------------------
(* Initial states                                                          *)

RowCounts == {MinCleanRows - 1, MinCleanRows, MaxRows}
Shapes == {"linear", "constant"}
FeatureSets == {SubSeq(FeatureCols, 1, 1), FeatureCols}
\* testSplit in percent: 0.2 (the value the training page sends) and 0.95
TestSplits == {20, 95}
ModelLists ==
    {<<>>, <<KindLinear>>, <<KindRf>>, <<KindGbm>>, <<KindLinear, KindRf>>,
     <<KindLinear, KindGbm>>, <<KindRf, KindGbm>>, <<KindLinear, KindRf, KindGbm>>,
     <<KindGbm, KindLinear>>, <<KindRf, KindRf>>}

NoOdd == [on |-> FALSE, cell |-> NullCell, col |-> TargetCol, pos |-> 1]
Odds == {NoOdd} \cup
        [on : {TRUE}, cell : OddCells, col : {TargetCol, FeatureCols[1]}, pos : {1, 4}]

\* the generated rows, with one row holding an odd cell inserted at odd.pos;
\* an undefined cell is a column the row does not have
DataOf(n, shape, odd) ==
    IF ~odd.on THEN GenData(n, shape)
    ELSE LET base == GenRow(0, shape)
             row == IF odd.cell = UndefCell THEN DropField(base, odd.col)
                    ELSE [base EXCEPT ![odd.col] = odd.cell]
         IN InsertAt(GenData(n, shape), odd.pos, row)

ConfigOf(feats, ts, models) ==
    [targetVariable |-> TargetCol, features |-> feats, testSplit |-> ts, models |-> models]

\* the combinations of data and configuration that are explored: every data
\* set with no model requested; every list of kinds on the largest clean data
\* set; each kind alone on every clean data set and on the data sets with an
\* infinite target; every list of kinds with a test split that leaves no
\* training row
InScope(n, shape, odd, feats, ts, models) ==
    \/ models = <<>> /\ ts = 20 /\ shape = "linear"
    \/ ~odd.on /\ ts = 20 /\ n = MaxRows /\ shape = "linear" /\ feats = FeatureCols
    \/ ~odd.on /\ ts = 20 /\ n >= MinCleanRows /\ Len(models) = 1
    \/ /\ odd.on /\ odd.cell = NumCell(PInf) /\ odd.col = TargetCol
       /\ ts = 20 /\ shape = "linear" /\ feats = FeatureCols /\ Len(models) = 1
    \/ /\ ~odd.on /\ ts = 95 /\ n = MinCleanRows /\ shape = "linear"
       /\ Len(feats) = 1 /\ Len(models) >= 1

InitRest ==
    /\ pc = "idle"
    /\ now = 0
    /\ progress = <<>>
    /\ outbox = <<>>
    /\ split = NoSplit
    /\ results = <<>>
    /\ cur = NoCur
    /\ loop = NoLoop
    /\ run = 1
    /\ prev = [progress |-> <<>>, outbox |-> <<>>]
    /\ live = <<>>
    /\ lastPred = NoPred
    /\ call = NoCall
    /\ host = NoHost

Init ==
    /\ \E n \in RowCounts, shape \in Shapes, odd \in Odds, feats \in FeatureSets,
          ts \in TestSplits, models \in ModelLists :
          /\ InScope(n, shape, odd, feats, ts, models)
          /\ data = DataOf(n, shape, odd)
          /\ config = ConfigOf(feats, ts, models)
    /\ InitRest

Next ==
    \/ Receive
    \/ Clean
    \/ TrainLinear
    \/ StartRf
    \/ RfTrees
    \/ StartGbm
    \/ GbmRounds
    \/ EnterImportance
    \/ ImportanceFeature
    \/ EnterCV
    \/ CvFoldLinear
    \/ CvFoldStartRf
    \/ CvRfTrees
    \/ CvFoldStartGbm
    \/ CvGbmRounds
    \/ Finalise
    \/ Predict

Spec == Init /\ [][Next]_vars

\* the steps of the worker: the code that a resumed zero-delay timeout runs
Worker ==
    \/ Receive
    \/ Clean
    \/ TrainLinear
    \/ StartRf
    \/ RfTrees
    \/ StartGbm
    \/ GbmRounds
    \/ EnterImportance
    \/ ImportanceFeature
    \/ EnterCV
    \/ CvFoldLinear
    \/ CvFoldStartRf
    \/ CvRfTrees
    \/ CvFoldStartGbm
    \/ CvGbmRounds
    \/ Finalise

\* the positions at which the worker has a message to handle or a timeout
\* to be resumed from
Running ==
    {"idle", "tick_clean", "tick_train", "train_yield", "tick_imp", "imp_yield",
     "tick_cv", "cv_yield", "cv_train_yield", "tick_final"}

\* the event loop delivers the message, and a run that stays suspended is
\* resumed again and again: the worker keeps taking steps
SpecFair ==
    /\ Init /\ [][Next]_vars
    /\ WF_vars(Receive)
    /\ []<>(pc \notin Running) \/ []<><<Worker>>_vars

\* two (or more) runs on the same data and configuration, one after the other
ModelListsTwoRuns ==
    {<<KindLinear>>, <<KindRf>>, <<KindGbm>>, <<KindLinear, KindRf, KindGbm>>}

InitTwoRuns ==
    /\ \E n \in {MinCleanRows - 1, MinCleanRows}, models \in ModelListsTwoRuns :
          /\ data = GenData(n, "linear")
          /\ config = ConfigOf(FeatureCols, 20, models)
    /\ InitRest

NextTwoRuns == Next \/ Rerun

SpecTwoRuns == InitTwoRuns /\ [][NextTwoRuns]_vars

----------------------------------------------------------------------------
(* The training page and its workers, the store with its persisted copy,   *)
(* the server's trained_models table and the server's training endpoint    *)

\* JSON.stringify writes a number that is not finite as null, and arithmetic
\* on the parsed value reads null as 0
JsonNum(v) == IF IsFiniteNum(v) THEN v ELSE 0

\* a node of a tree after JSON.stringify and JSON.parse
RECURSIVE JsonNode(_)
JsonNode(j) ==
    IF "f" \notin DOMAIN j THEN [v |-> JsonNum(j.v)]
    ELSE [v |-> JsonNum(j.v), f |-> j.f, t |-> JsonNum(j.t),
          l |-> JsonNode(j.l), r |-> JsonNode(j.r)]

\* a TrainedModel after JSON.stringify and JSON.parse: every field that is
\* there is kept (null included), every number goes through JsonNum
JsonModel(m) ==
    LET Nums(s) == Force([i \in DOMAIN s |-> JsonNum(s[i])])
        ModelJSON(j) ==
            CASE m.type = "Linear Regression" -> [j EXCEPT !.weights = Nums(j.weights)]
              [] m.type = "Random Forest" ->
                    [j EXCEPT !.trees = Force([k \in Idx(j.trees) |-> JsonNode(j.trees[k])])]
              [] OTHER ->
                    [j EXCEPT !.initialPred = JsonNum(j.initialPred),
                              !.estimators = Force([k \in Idx(j.estimators) |->
                                                       Nums(j.estimators[k])])]
        Value(k) ==
            CASE k = "metrics" -> Nums(m.metrics)
              [] k = "cvMetrics" ->
                    [mean |-> Nums(m.cvMetrics.mean), std |-> Nums(m.cvMetrics.std),
                     folds |-> m.cvMetrics.folds]
              [] k = "modelJSON" -> ModelJSON(m.modelJSON)
              [] k = "scalerJSON" ->
                    [means |-> Nums(m.scalerJSON.means), stds |-> Nums(m.scalerJSON.stds)]
              [] k = "featureImportance" ->
                    Force([i \in Idx(m.featureImportance) |->
                             [feature |-> m.featureImportance[i].feature,
                              importance |-> JsonNum(m.featureImportance[i].importance)]])
              [] OTHER -> m[k]
    IN Force([k \in DOMAIN m |-> Value(k)])

JsonModels(ms) == Force([k \in Idx(ms) |-> JsonModel(ms[k])])

\* the body of post('/api/models', { ...model, modelInstance: undefined }):
\* JSON.stringify leaves out a field that is undefined
PostBody(m) == JsonModel(DropField(m, "modelInstance"))

\* partialize: what the persist middleware writes of trainedModels
Partialize(trainedModels) ==
    JsonModels(Force([k \in Idx(trainedModels) |->
                        [trainedModels[k] EXCEPT !.modelInstance = NullInstance]]))

\* POST /api/models: the columns of the row inserted for a request body
RowOf(body) ==
    [id |-> body.id, type |-> body.type, metrics |-> body.metrics,
     model_json |-> body.modelJSON, feature_importance |-> body.featureImportance,
     config |-> body.config]

\* GET /api/models: the response, newest row first
GetModels(rows) ==
    Force([k \in Idx(rows) |->
             LET r == rows[Len(rows) + 1 - k]
             IN [id |-> r.id, type |-> r.type, metrics |-> r.metrics,
                 modelJSON |-> r.model_json, featureImportance |-> r.feature_importance,
                 config |-> r.config, modelInstance |-> NullInstance]])

\* the messages the running worker has posted, in the order of posting: the
\* progress callbacks, then the result or the error
Stream ==
    Force([i \in Idx(progress) |->
             [type |-> "progress", label |-> progress[i].label, pct |-> progress[i].pct]])
       \o outbox

\* the messages of worker w that its onmessage has not handled
Pending(h, w) ==
    IF w = h.current THEN SubSeq(Stream, h.seen + 1, Len(Stream)) ELSE h.left[w]

\* a page that never terminates a worker
KeepWorker(h, w) == h

\* worker.terminate(): the worker stops, and the messages it has posted that
\* the page has not handled are discarded
Terminate(h, w) ==
    IF w = 0 THEN h
    ELSE [h EXCEPT !.live = @ \ {w},
                   !.left[w] = <<>>,
                   !.seen = IF w = h.current THEN Len(Stream) ELSE @,
                   !.discarded = @ \/ Pending(h, w) # <<>>]

\* the position of the latest worker after a step of the page
StopIfDead(h) ==
    pc' = IF h.current \notin h.live /\ pc \in Running THEN "terminated" ELSE pc

TrainerReset ==
    /\ progress' = <<>>
    /\ outbox' = <<>>
    /\ split' = NoSplit
    /\ results' = <<>>
    /\ live' = <<>>
    /\ cur' = NoCur
    /\ loop' = NoLoop

\* handleTrain with a dataset, a target and a feature selected: the state of
\* the page is reset, the worker of workerRef is terminated, a new worker is
\* created and the data and the configuration are posted to it
HandleTrain ==
    /\ host.mode = "page"
    /\ host.mounted
    /\ host.current < MaxWorkers
    /\ LET Started(h, w) ==
               [h EXCEPT !.page = [isTraining |-> TRUE, progress |-> 5,
                                   label |-> "Preparing data...", results |-> <<>>,
                                   error |-> ""],
                         !.current = w, !.ref = w, !.live = @ \cup {w}, !.seen = 0,
                         !.handled = [w |-> 0, n |-> 0]]
           InPort(h) ==
               IF h.current = 0 THEN h
               ELSE [h EXCEPT !.left[h.current] = Pending(h, h.current)]
       IN host' = Started(Terminate(InPort(host), host.ref), host.current + 1)
    /\ pc' = "idle"
    /\ TrainerReset
    /\ UNCHANGED <<data, config, now, run, prev, lastPred, call>>

\* the message at the head of the port of w is taken
Taken(h, w) ==
    IF w = h.current THEN [h EXCEPT !.seen = @ + 1, !.handled = [w |-> w, n |-> @.n + 1]]
    ELSE [h EXCEPT !.left[w] = Tail(@), !.handled = [w |-> w, n |-> @.n + 1]]

\* trainedModels.forEach(m => addTrainedModel(m)): each model is appended to
\* the store, the persisted copy is rewritten and the model is posted
AddTrainedModels(h, models) ==
    [h EXCEPT !.store = @ \o models,
              !.persisted = Partialize(h.store \o models),
              !.posts = @ \o Force([k \in Idx(models) |-> PostBody(models[k])])]

\* worker.onmessage of the worker w
OnMessage ==
    /\ \E w \in host.live :
          /\ Pending(host, w) # <<>>
          /\ LET msg == Head(Pending(host, w))
                 OnProgress(h) ==
                     [h EXCEPT !.page.label = msg.label, !.page.progress = msg.pct]
                 OnResult(h) ==
                     [AddTrainedModels(h, msg.models) EXCEPT
                         !.page.results = msg.models, !.page.progress = 100,
                         !.page.label = "Done!", !.page.isTraining = FALSE,
                         !.added = Append(@, w)]
                 OnErrorMessage(h) ==
                     [h EXCEPT !.page.error = msg.message.text,
                               !.page.isTraining = FALSE, !.page.progress = 0]
                 After(h) ==
                     CASE msg.type = "progress" -> OnProgress(h)
                       [] msg.type = "result" -> Terminate(OnResult(h), w)
                       [] OTHER -> Terminate(OnErrorMessage(h), w)
             IN host' = After(Taken(host, w))
    /\ UNCHANGED <<data, config, pc, now, progress, outbox, split, results, cur, loop,
                   run, prev, live, lastPred, call>>

\* worker.onerror: the worker's script fails before its handler runs
OnError ==
    /\ pc = "idle"
    /\ host.ref = host.current
    /\ host.current \in host.live
    /\ LET Failed(h) ==
               [h EXCEPT !.page.error = "Training failed", !.page.isTraining = FALSE,
                         !.page.progress = 0]
       IN host' = Terminate(Failed(host), host.current)
    /\ StopIfDead(host')
    /\ UNCHANGED <<data, config, now, progress, outbox, split, results, cur, loop,
                   run, prev, live, lastPred, call>>

\* the cleanup of the page's effect: workerRef.current?.terminate()
Unmount ==
    /\ host.mode = "page"
    /\ host.mounted
    /\ host' = [Terminate(host, host.ref) EXCEPT !.mounted = FALSE]
    /\ StopIfDead(host')
    /\ UNCHANGED <<data, config, now, progress, outbox, split, results, cur, loop,
                   run, prev, live, lastPred, call>>

\* the page is shown again: a new component with its initial state
Mount ==
    /\ host.mode = "page"
    /\ ~host.mounted
    /\ host' = [host EXCEPT !.mounted = TRUE, !.ref = 0, !.page = NoPage]
    /\ UNCHANGED <<data, config, pc, now, progress, outbox, split, results, cur, loop,
                   run, prev, live, lastPred, call>>

\* POST /api/models for the oldest request under way: without a pool the
\* request is answered and nothing is stored; a row with the same id is kept
PostModels ==
    /\ host.posts # <<>>
    /\ LET body == Head(host.posts)
       IN host' = [host EXCEPT
                      !.posts = Tail(@),
                      !.db = IF ~host.pool \/ \E k \in Idx(host.db) : host.db[k].id = body.id
                             THEN @ ELSE Append(@, RowOf(body))]
    /\ UNCHANGED <<data, config, pc, now, progress, outbox, split, results, cur, loop,
                   run, prev, live, lastPred, call>>

\* syncFromDB: trainedModels is replaced by the response of GET /api/models
\* when the response holds a model
SyncFromDB ==
    /\ host.mode = "page"
    /\ LET trainedModels == IF host.pool THEN GetModels(host.db) ELSE <<>>
       IN /\ Len(trainedModels) > 0
          /\ host.store # trainedModels
          /\ host' = [host EXCEPT !.store = trainedModels,
                                  !.persisted = Partialize(trainedModels),
                                  !.synced = TRUE]
    /\ UNCHANGED <<data, config, pc, now, progress, outbox, split, results, cur, loop,
                   run, prev, live, lastPred, call>>

\* the client of POST /api/train closes the connection: send writes nothing more
ClientClose ==
    /\ host.mode = "server"
    /\ ~host.clientGone
    /\ host' = [host EXCEPT !.clientGone = TRUE, !.seen = Len(Stream)]
    /\ UNCHANGED <<data, config, pc, now, progress, outbox, split, results, cur, loop,
                   run, prev, live, lastPred, call>>

\* the events written to the response of POST /api/train, as the client parses them
SseEvents ==
    LET written == IF host.clientGone THEN SubSeq(Stream, 1, host.seen) ELSE Stream
    IN Force([i \in Idx(written) |->
                IF written[i].type = "result"
                THEN [written[i] EXCEPT !.models = JsonModels(@)]
                ELSE written[i]])

\* the page is mounted with a dataset, a target and features selected, and
\* sends testSplit 0.2 and the three kinds; or the server has received a
\* request for /api/train
InitHost ==
    /\ \E n \in {MinCleanRows - 1, MinCleanRows}, feats \in FeatureSets,
          mode \in {"page", "server"}, pool \in BOOLEAN :
          /\ n < MinCleanRows => (mode = "page" /\ pool)
          /\ n = MinCleanRows => (pool <=> (mode = "page" /\ feats = FeatureCols))
          /\ data = GenData(n, "linear")
          /\ config = ConfigOf(feats, 20, Kinds)
          /\ pc = IF mode = "page" THEN "unsent" ELSE "idle"
          /\ host = [NoHost EXCEPT !.mode = mode, !.pool = pool,
                                   !.mounted = (mode = "page")]
    /\ now = MaxClock
    /\ progress = <<>>
    /\ outbox = <<>>
    /\ split = NoSplit
    /\ results = <<>>
    /\ cur = NoCur
    /\ loop = NoLoop
    /\ run = 1
    /\ prev = [progress |-> <<>>, outbox |-> <<>>]
    /\ live = <<>>
    /\ lastPred = NoPred
    /\ call = NoCall

\* the worker (or the server's handler) takes a step
TrainerStep == (host.mode = "page" => host.current \in host.live) /\ Worker

NextHost ==
    \/ TrainerStep
    \/ HandleTrain
    \/ OnMessage
    \/ OnError
    \/ Unmount
    \/ Mount
    \/ PostModels
    \/ SyncFromDB
    \/ ClientClose

SpecHost == InitHost /\ [][NextHost]_vars

----------------------------------------------------------------------------
(* The functions of the engine applied on their own, next to runs on a     *)
(* constant target column                                                  *)

MaxActualLen == 3

ActualValues == {0, NOfInt(-4), NOfInt(5), PInf}
PredictedValues == {NOfInt(1), NOfInt(5), NaN, PInf}

\* calculateMetrics(actual, predicted)
MetricsCall ==
    /\ pc = "unit"
    /\ \E len \in 0..MaxActualLen :
       \E actual \in [1..len -> ActualValues], predicted \in [1..len -> PredictedValues] :
          call' = [fn |-> "calculateMetrics", actual |-> actual, predicted |-> predicted,
                   out |-> CalculateMetrics(actual, predicted)]
    /\ pc' = "returned"
    /\ UNCHANGED <<data, config, now, progress, outbox, split, results, cur, loop,
                   run, prev, live, lastPred, host>>

\* Binary floating point with a significand of Precision bits, rounding to
\* nearest, ties to even, as the arithmetic of JavaScript numbers does with 53
\* bits.  A value is held as a whole number of units of 2^-FracBits.
Precision == 4
FracBits == 2

FOne == 2^FracBits

\* the spacing of the representable values at the magnitude num / den
RECURSIVE Ulp(_, _, _)
Ulp(num, den, sp) ==
    IF num < den * sp * 2^Precision THEN sp ELSE Ulp(num, den, 2 * sp)

RoundHalfEven(num, den) ==
    LET fl == num \div den
        r  == num % den
    IN IF 2 * r < den THEN fl
       ELSE IF 2 * r > den THEN fl + 1
       ELSE IF fl % 2 = 0 THEN fl ELSE fl + 1

\* the representable value nearest to num / den, den > 0
FRound(num, den) ==
    LET a  == IF num < 0 THEN -num ELSE num
        sp == Ulp(a, den, 1)
    IN Sgn(num) * sp * RoundHalfEven(a, den * sp)

FAdd(a, b) == FRound(a + b, 1)
FSub(a, b) == FRound(a - b, 1)
FMul(a, b) == FRound(a * b, FOne)
\* a / b for b # 0
FDiv(a, b) == FRound(Sgn(b) * a * FOne, IF b < 0 THEN -b ELSE b)
FDivN(a, n) == FRound(a, n)

\* s[1] + ... + s[k], added from the left, every sum rounded
RECURSIVE FSumTo(_, _)
FSumTo(s, k) == IF k = 0 THEN 0 ELSE FAdd(FSumTo(s, k - 1), s[k])

\* the r2 of calculateMetrics on finite values, every operation rounded:
\* ssTot === 0 ? 0 : Math.max(0, 1 - ssRes / ssTot)
R2Rounded(actual, predicted) ==
    LET n == Len(actual)
        Diff(mean) == [i \in 1..n |-> FSub(actual[i], mean)]
        SumSq(d) == FSumTo([i \in 1..n |-> FMul(d[i], d[i])], n)
        Ratio(ssRes, ssTot) ==
            IF ssTot = 0 THEN 0
            ELSE IF FSub(FOne, FDiv(ssRes, ssTot)) < 0 THEN 0
            ELSE FSub(FOne, FDiv(ssRes, ssTot))
    IN Ratio(SumSq([i \in 1..n |-> FSub(actual[i], predicted[i])]),
             SumSq(Diff(FDivN(FSumTo(actual, n), n))))

\* values with a significand of Precision bits, the first with a last bit
\* that the sum of three of them cannot hold
FValues == {(2^Precision - 2) * 2, 2^Precision + 4, 2^Precision + 8}

\* calculateMetrics(actual, predicted).r2 on finite values, in rounded arithmetic
R2Call ==
    /\ pc = "unit"
    /\ \E len \in 1..MaxActualLen :
       \E actual \in [1..len -> FValues], predicted \in [1..len -> FValues] :
          call' = [fn |-> "r2", actual |-> actual, predicted |-> predicted,
                   out |-> R2Rounded(actual, predicted)]
    /\ pc' = "returned"
    /\ UNCHANGED <<data, config, now, progress, outbox, split, results, cur, loop,
                   run, prev, live, lastPred, host>>

MaxFoldRows == 24

\* the slices of runKFoldCV for an array of n rows, the rows numbered 1..n:
\* X_val and X_tr of every fold
FoldCall ==
    /\ pc = "unit"
    /\ \E n \in MinCleanRows..MaxFoldRows :
       \E rows \in {Force([i \in 1..n |-> i])} :
          call' = [fn |-> "runKFoldCV", n |-> n,
                   val |-> Force([k \in 1..NFolds |-> FoldVal(rows, k - 1)]),
                   tr  |-> Force([k \in 1..NFolds |-> FoldTrain(rows, k - 1)])]
    /\ pc' = "returned"
    /\ UNCHANGED <<data, config, now, progress, outbox, split, results, cur, loop,
                   run, prev, live, lastPred, host>>

MaxShuffleLen == 12

\* the shuffle of trainModels applied to n pairs {x, y} that are all different
ShuffleCall ==
    /\ pc = "unit"
    /\ \E n \in 0..MaxShuffleLen :
       \E pairs \in {Force([i \in 1..n |-> [x |-> <<i>>, y |-> 10 * i]])} :
          call' = [fn |-> "shuffle", n |-> n, pairs |-> pairs,
                   swaps |-> ShuffleSwaps(ShuffleSeed, n),
                   out |-> Shuffle(pairs)]
    /\ pc' = "returned"
    /\ UNCHANGED <<data, config, now, progress, outbox, split, results, cur, loop,
                   run, prev, live, lastPred, host>>

MaxRoundsCall == 4
BoostRows == 4
BoostTargets == {NOfInt(1), NOfInt(4), (29 * SCALE) \div 4}

\* the feature rows of the boosting calls: two columns of small integers
BoostX == Force([i \in 1..BoostRows |-> <<NOfInt(i), NOfInt((i * i) % 5)>>])

\* GradientBoostingRegressor.train on a few rows, seen after round r
GbmTrainCall ==
    /\ pc = "unit"
    /\ \E r \in 0..MaxRoundsCall, y \in [1..BoostRows -> BoostTargets] :
       \E g \in {GbmAfterRounds(GbmStart(y, MaxRoundsCall, LearningRate), BoostX, y, r)} :
          call' = [fn |-> "gbm.train", X |-> BoostX, y |-> y, rounds |-> r, g |-> g]
    /\ pc' = "returned"
    /\ UNCHANGED <<data, config, now, progress, outbox, split, results, cur, loop,
                   run, prev, live, lastPred, host>>

StumpRows == 3
\* feature values: two neighbours on the number grid below zero, and 1
StumpFeatureValues == {-2, -1, NOfInt(1)}
StumpResiduals == {NOfInt(1), NOfInt(3)}

\* DecisionStump.train on a few rows of two features
StumpCall ==
    /\ pc = "unit"
    /\ \E X \in [1..StumpRows -> [1..2 -> StumpFeatureValues]],
          residuals \in [1..StumpRows -> StumpResiduals] :
          call' = [fn |-> "stump.train", X |-> X, residuals |-> residuals,
                   stump |-> StumpTrain(X, residuals)]
    /\ pc' = "returned"
    /\ UNCHANGED <<data, config, now, progress, outbox, split, results, cur, loop,
                   run, prev, live, lastPred, host>>

MaxTreeRows == 20
MaxTreeIdx == 9
MaxTreeDepth == 2

\* n rows of two features and their targets for the tree calls
TreeX(n) == Force([i \in 1..n |-> <<NOfInt(i), NOfInt((i * i) % 7)>>])
TreeY(n) == Force([i \in 1..n |-> NOfInt((2 * i) + ((i * i) % 7))])

\* the pass of ExtraTreesRegressor.train for tree i on n rows: the bootstrap
\* sample, the feature subset and the tree built from them
TreeCall ==
    /\ pc = "unit"
    /\ \E n \in MinCleanRows..MaxTreeRows, i \in 0..MaxTreeIdx, maxDepth \in 0..MaxTreeDepth :
       \E boot \in {Bootstrap(n, 0, U32(SeedBase + i * TreeSeedStep), <<>>)} :
       \E shuf \in {ShuffleFeatures(<<0, 1>>, 2, boot.s)} :
          call' = [fn |-> "et.train", n |-> n, i |-> i, maxDepth |-> maxDepth,
                   bootX |-> Force([j \in 1..n |-> TreeX(n)[boot.idxs[j]]]),
                   bootY |-> Force([j \in 1..n |-> TreeY(n)[boot.idxs[j]]]),
                   featureSubset |-> SubSeq(shuf.allF, 1, KFeatures(2)),
                   tree |-> EtTree(TreeX(n), TreeY(n), i, maxDepth)]
    /\ pc' = "returned"
    /\ UNCHANGED <<data, config, now, progress, outbox, split, results, cur, loop,
                   run, prev, live, lastPred, host>>

InitUnit ==
    /\ \/ /\ pc = "unit"
          /\ data = <<>>
          /\ config = ConfigOf(FeatureCols, 20, <<>>)
       \/ /\ pc = "idle"
          /\ data = GenData(MinCleanRows, "constant")
          /\ config = ConfigOf(FeatureCols, 20, Kinds)
    /\ now = 0
    /\ progress = <<>>
    /\ outbox = <<>>
    /\ split = NoSplit
    /\ results = <<>>
    /\ cur = NoCur
    /\ loop = NoLoop
    /\ run = 1
    /\ prev = [progress |-> <<>>, outbox |-> <<>>]
    /\ live = <<>>
    /\ lastPred = NoPred
    /\ call = NoCall
    /\ host = NoHost

NextUnit ==
    \/ Next
    \/ MetricsCall
    \/ R2Call
    \/ FoldCall
    \/ ShuffleCall
    \/ GbmTrainCall
    \/ StumpCall
    \/ TreeCall

SpecUnit == InitUnit /\ [][NextUnit]_vars

----------------------------------------------------------------------------
(* Properties                                                              *)

\* a clean row in the words of the specification: the target and every
\* configured feature parse to a finite number
IsFiniteCell(c) ==
    c.t \in {"number", "string"} /\ ~IsEmptyString(c) /\ IsFiniteNum(ToNumber(c))

IsCleanRow(row, cfg) ==
    /\ IsFiniteCell(Cell(row, cfg.targetVariable))
    /\ \A i \in Idx(cfg.features) : IsFiniteCell(Cell(row, cfg.features[i]))

CleanRowCount == Cardinality({i \in Idx(data) : IsCleanRow(data[i], config)})

\* the artifacts of the result message of an outbox, if it holds one
ArtifactsOf(box) ==
    IF Len(box) > 0 /\ box[Len(box)].type = "result" THEN box[Len(box)].models ELSE <<>>

LastOf(s) == s[Len(s)]

\* C1: when fewer than 10 rows are clean, the run is rejected with an error
\* that carries the clean-row count; no artifact is returned, no split is made
\* and no progress event other than the cleaning tick has been emitted
TooFewCleanRowsRejected ==
    (CleanRowCount < MinCleanRows /\ pc \notin {"idle", "tick_clean"}) =>
        /\ pc = "failed"
        /\ outbox = <<[type |-> "error", message |-> NotEnoughRows(CleanRowCount)]>>
        /\ results = <<>>
        /\ split = NoSplit
        /\ progress = <<CleanTick>>

\* C1: a run on fewer than 10 clean rows has been rejected
RejectedForTooFewCleanRows ==
    /\ CleanRowCount < MinCleanRows
    /\ pc = "failed"
    /\ outbox = <<[type |-> "error", message |-> NotEnoughRows(CleanRowCount)]>>

\* C2: the feature matrix and the target vector hold exactly the clean rows:
\* every value in them is finite, and their rows are the rows of the data
\* whose target and configured features are all finite
CleanedRowsAreTheFiniteRows ==
    split # NoSplit =>
        /\ \A i \in Idx(split.X_all) :
              /\ IsFiniteNum(split.y_all[i])
              /\ \A k \in Idx(split.X_all[i]) : IsFiniteNum(split.X_all[i][k])
        /\ Len(split.X_all) = CleanRowCount
        /\ {<<split.X_all[i], split.y_all[i]>> : i \in Idx(split.X_all)}
             = {<<[k \in Idx(config.features) |->
                      ToNumber(Cell(data[i], config.features[k]))],
                  ToNumber(Cell(data[i], config.targetVariable))>> :
                   i \in {j \in Idx(data) : IsCleanRow(data[j], config)}}

\* C2: a split has been made from data of which a row that is not clean was
\* dropped
UncleanRowDropped ==
    /\ split # NoSplit
    /\ CleanRowCount < Len(data)
    /\ Len(split.X_all) = CleanRowCount

SerializedPredictsLikeFitted ==
    (pc = "predicted" /\ lastPred.damage = "none"
        /\ Len(lastPred.x) = Len(config.features)) =>
        LET m == live[lastPred.k]
        IN lastPred.out =
              NumberResult(PredictFn(m.kind, m.model, m.scaler, <<lastPred.x>>)[1])

\* C4: a boosting artifact has predicted a finite value that lies off the
\* initial prediction, for a vector of the configured length
BoostingPredictedFromArtifact ==
    /\ pc = "predicted"
    /\ lastPred.damage = "none"
    /\ Len(lastPred.x) = Len(config.features)
    /\ live[lastPred.k].kind = KindGbm
    /\ ~lastPred.out.isNull
    /\ IsFiniteNum(lastPred.out.value)
    /\ lastPred.out.value # live[lastPred.k].model.initialPred

\* C5: predictWithModel returns null whenever the artifact is damaged (model
\* missing, corrupted, of an unknown type) or the input vector is not as long
\* as the list of features the model was trained on
BadPredictionInputGivesNull ==
    (pc = "predicted"
        /\ (lastPred.damage # "none" \/ Len(lastPred.x) # Len(config.features))) =>
        lastPred.out.isNull

\* C5: predictWithModel has returned null for an artifact without modelJSON
MissingModelGaveNull ==
    /\ pc = "predicted"
    /\ lastPred.damage = "noModelJSON"
    /\ lastPred.out.isNull

\* C6: the percents of the progress events of a run never decrease
ProgressNeverDecreases ==
    \A i \in 1..(Len(progress) - 1) : progress[i].pct <= progress[i + 1].pct

\* C6: a run of all three kinds is done and has reported the trees of the
\* forest one step at a time
ThreeKindsDoneWithTreeProgress ==
    /\ pc = "done"
    /\ Len(results) = Len(Kinds)
    /\ \E i \in Idx(progress) : progress[i] = RfProgress(45, TreesFinal)
    /\ \E i \in Idx(progress) : progress[i].pct > 35 /\ progress[i].pct < 48

\* C7 (as stated): the progress stream of a successful run ends with an event
\* of percent 100
ProgressEndsAtHundred ==
    pc = "done" => Len(progress) > 0 /\ LastOf(progress).pct = 100

\* C7: the progress stream of a successful run ends with ("Finalising...", 95):
\* that event is never followed by another, no event carries 100, and the
\* result is posted only after it
ProgressEndsWithFinalising ==
    /\ \A i \in Idx(progress) :
          /\ progress[i].pct < 100
          /\ progress[i] = Event("Finalising...", 95) => i = Len(progress)
    /\ ArtifactsOf(outbox) # <<>> \/ pc \in {"done", "predicted"} =>
          /\ Len(progress) > 0
          /\ LastOf(progress) = Event("Finalising...", 95)
          /\ Len(outbox) = 1
          /\ outbox[1].type = "result"

\* C7: a successful run has posted its result after the last progress event
ResultPostedAfterFinalising ==
    /\ pc = "done"
    /\ Len(results) > 0
    /\ outbox[1].type = "result"
    /\ LastOf(progress) = Event("Finalising...", 95)

\* C8: a successful run returns one artifact for each requested kind and none
\* for a kind not requested, so as many as there are distinct requested kinds
OneArtifactPerRequestedKind ==
    pc \in {"tick_final", "done", "predicted"} =>
        LET requested == {config.models[j] : j \in Idx(config.models)}
        IN /\ \A i \in Idx(Kinds) :
                 Cardinality({k \in Idx(results) : results[k].type = TypeOf(Kinds[i])})
                    = IF Kinds[i] \in requested THEN 1 ELSE 0
           /\ Len(results) = Cardinality(requested)
           /\ pc # "tick_final" => Len(ArtifactsOf(outbox)) = Cardinality(requested)

\* C8: a run whose list names one kind twice is done with one artifact, and a
\* run of two kinds with two
DuplicateKindGaveOneArtifact ==
    /\ pc = "done"
    /\ Len(config.models) = 2
    /\ config.models[1] = config.models[2]
    /\ Len(results) = 1

\* C9: every artifact has one importance per configured feature, each a
\* finite number, and they sum to 1 (to within the grid of the fixed-point
\* numbers, one unit per feature; the uniform values 1/|features| do so too)
ImportancesSumToOne ==
    \A k \in Idx(results) :
        LET imp == results[k].featureImportance
            n == Len(config.features)
            total == NSum([i \in Idx(imp) |-> imp[i].importance])
        IN /\ Len(imp) = n
           /\ {imp[i].feature : i \in Idx(imp)} = {config.features[i] : i \in 1..n}
           /\ \A i \in Idx(imp) : IsFiniteNum(imp[i].importance)
           /\ IsFiniteNum(total)
           /\ NAbs(total - SCALE) <= n

\* C9: an artifact holds importances that are not uniform and sum to 1
UnequalImportancesSumToOne ==
    \E k \in Idx(results) :
        LET imp == results[k].featureImportance
            total == NSum([i \in Idx(imp) |-> imp[i].importance])
        IN /\ Len(imp) = 2
           /\ IsFiniteNum(total)
           /\ NAbs(total - SCALE) <= 2
           /\ imp[1].importance > imp[2].importance

\* C10: for every artifact, r2 and the cross-validation mean of r2 lie in
\* [0, 1], accuracy and the cross-validation mean of accuracy in [0, 100]
MetricsWithinBounds ==
    \A k \in Idx(results) :
        LET InUnit(v) == IsFiniteNum(v) /\ 0 <= v /\ v <= SCALE
            InPercent(v) == IsFiniteNum(v) /\ 0 <= v /\ v <= 100 * SCALE
        IN /\ InUnit(results[k].metrics.r2)
           /\ InPercent(results[k].metrics.accuracy)
           /\ InUnit(results[k].cvMetrics.mean.r2)
           /\ InPercent(results[k].cvMetrics.mean.accuracy)

\* C10: a run on data with an infinite target is done and has returned an
\* artifact whose r2 was replaced by 0
MetricsOfDegenerateData ==
    /\ pc = "done"
    /\ \E k \in Idx(results) :
          /\ results[k].metrics.r2 = 0
          /\ results[k].cvMetrics.mean.accuracy <= 100 * SCALE
    /\ \E i \in Idx(data) : ToNumber(Cell(data[i], config.targetVariable)) = PInf

\* the mean and the standard deviation of column f (counted from 1) of the
\* rows X, as StandardScaler defines them
ColumnMean(X, f) == NDivN(NSum(Column(X, f)), Len(X))

ColumnStd(X, f) ==
    StdOrOne(NDivN(NSum([i \in Idx(X) |->
                           LET d == NSub(X[i][f], ColumnMean(X, f)) IN NMul(d, d)]),
                   Len(X)))

\* the scaler of the training partition
TrainScaler ==
    [means |-> [f \in Idx(config.features) |-> ColumnMean(split.X_train, f)],
     stds  |-> [f \in Idx(config.features) |-> ColumnStd(split.X_train, f)]]

IsLinearArtifact(m) == m.type = TypeOf(KindLinear)

\* C11: from the fit of the linear model on, its scaler holds the means and
\* the standard deviations of the training rows and never changes; the test
\* metrics and the permutation importances are computed through that scaler,
\* scalerJSON holds its values, and predictWithModel applies them before the
\* linear map
ScalerFitOnTrainingOnly ==
    /\ (cur.kind = KindLinear /\ pc \notin {"tick_train", "failed"}) =>
          /\ cur.scaler = TrainScaler
          /\ cur.metrics =
                CalculateMetrics(split.y_test,
                    MlrPredict(cur.model, ScalerTransform(TrainScaler, split.X_test)))
    /\ \A k \in Idx(results) : IsLinearArtifact(results[k]) =>
          /\ results[k].scalerJSON = TrainScaler
          /\ results[k].featureImportance =
                NormalizeImportances(
                    [f \in Idx(config.features) |->
                        RawImportance(KindLinear, results[k].modelInstance, TrainScaler,
                                      split.X_test, split.y_test, f - 1,
                                      results[k].metrics.rmse)],
                    config.features)
    /\ (pc = "predicted" /\ lastPred.damage = "none"
          /\ Len(lastPred.x) = Len(config.features)
          /\ IsLinearArtifact(results[lastPred.k])) =>
          lastPred.out =
             NumberResult(MlrPredictSingle(results[lastPred.k].modelInstance,
                             ScalerTransformSingle(TrainScaler, lastPred.x)))

\* C11: a linear artifact has predicted through a scaler whose means differ
\* from the means of all rows, test rows included, and whose standard
\* deviations are not the default
LinearPredictedThroughTrainScaler ==
    /\ pc = "predicted"
    /\ lastPred.damage = "none"
    /\ Len(lastPred.x) = Len(config.features)
    /\ IsLinearArtifact(results[lastPred.k])
    /\ Len(split.X_test) > 0
    /\ results[lastPred.k].scalerJSON.means[1] # ColumnMean(split.X_all, 1)
    /\ results[lastPred.k].scalerJSON.stds[1] # NOfInt(1)
    /\ IsFiniteNum(lastPred.out.value)

IsMetricsCall == call.fn = "calculateMetrics"

AllFinite(s) == \A i \in Idx(s) : IsFiniteNum(s[i])

\* 100 * (the sum of |err / actual| over the rows with a nonzero actual) / n,
\* n the number of all rows
MapeOverAllRows(actual, predicted) ==
    LET nonzero == {i \in Idx(actual) : actual[i] # 0}
        pct == [i \in Idx(actual) |->
                  IF i \in nonzero
                  THEN NAbs(NDiv(NSub(actual[i], predicted[i]), actual[i]))
                  ELSE 0]
    IN NMulN(NDivN(NSum(pct), Len(actual)), 100)

Clamp(v, lo, hi) == IF v < lo THEN lo ELSE IF v > hi THEN hi ELSE v

\* C13: for finite actual and predicted values, mape is 100 times the sum of
\* |err / actual| over the rows with a nonzero actual, divided by the number of
\* all rows, and accuracy is 100 - mape clamped to [0, 100]
MapeDividesByAllRows ==
    (IsMetricsCall /\ Len(call.actual) > 0
        /\ AllFinite(call.actual) /\ AllFinite(call.predicted)) =>
        /\ call.out.mape = MapeOverAllRows(call.actual, call.predicted)
        /\ call.out.accuracy = Clamp(NOfInt(100) - call.out.mape, 0, NOfInt(100))

\* C13: calculateMetrics was applied to finite rows of which one has actual 0
\* and another has not, with an error on both, and accuracy lies strictly
\* between 0 and 100
MapeWithZeroActual ==
    /\ IsMetricsCall
    /\ AllFinite(call.actual) /\ AllFinite(call.predicted)
    /\ \E i, j \in Idx(call.actual) : call.actual[i] = 0 /\ call.actual[j] # 0
    /\ \A i \in Idx(call.actual) : call.actual[i] # call.predicted[i]
    /\ call.out.mape > 0
    /\ call.out.accuracy > 0
    /\ call.out.accuracy < NOfInt(100)

\* the five defining formulas of calculateMetrics before sanitize; accuracy
\* is defined from the mape that is returned
RawMetrics(actual, predicted, mape) ==
    LET n == Len(actual)
        err == [i \in 1..n |-> NSub(actual[i], At(predicted, i - 1))]
        meanActual == NDivN(NSum(actual), n)
        ssRes == NSum([i \in 1..n |-> NMul(err[i], err[i])])
        ssTot == NSum([i \in 1..n |-> NMul(NSub(actual[i], meanActual),
                                            NSub(actual[i], meanActual))])
    IN [rmse |-> NSqrt(NDivN(ssRes, n)),
        mae  |-> NDivN(NSum([i \in 1..n |-> NAbs(err[i])]), n),
        r2   |-> IF ssTot = 0 THEN 0 ELSE NMax(0, NSub(NOfInt(1), NDiv(ssRes, ssTot))),
        mape |-> NMulN(NDivN(NSum([i \in 1..n |->
                    IF actual[i] # 0 THEN NAbs(NDiv(err[i], actual[i])) ELSE 0]), n), 100),
        accuracy |-> NMax(0, NMin(NOfInt(100), NSub(NOfInt(100), mape)))]

\* C14: whatever the arrays hold, each of rmse, mae, r2, mape and accuracy is
\* a finite number: the value of its formula when that is finite, 0 when it
\* is not (and 0 for empty arrays)
MetricsAlwaysFinite ==
    IsMetricsCall =>
        LET raw == RawMetrics(call.actual, call.predicted, call.out.mape)
        IN \A k \in Idx(MetricKeys) :
              LET key == MetricKeys[k]
              IN /\ IsFiniteNum(call.out[key])
                 /\ call.out[key] =
                       (IF Len(call.actual) > 0 /\ IsFiniteNum(raw[key])
                        THEN raw[key] ELSE 0)

\* C14: calculateMetrics was applied to predictions that hold NaN next to a
\* finite value: rmse, mae and mape are 0 and accuracy is 100
MetricsOfNaNPredictions ==
    /\ IsMetricsCall
    /\ AllFinite(call.actual)
    /\ \E i, j \in Idx(call.predicted) :
          IsNaN(call.predicted[i]) /\ IsFiniteNum(call.predicted[j])
    /\ call.out.rmse = 0 /\ call.out.mae = 0 /\ call.out.mape = 0
    /\ call.out.accuracy = NOfInt(100)

IsConstant(s) == \A i, j \in Idx(s) : s[i] = s[j]

\* C15: when all actual values are the same finite number, calculateMetrics
\* returns r2 = 0 whatever the predictions are, in exact arithmetic and in
\* rounded arithmetic alike; and in a run on a constant target column the r2
\* of every model kind is 0, on the test rows and in every fold
ConstantTargetGivesZeroR2 ==
    /\ (IsMetricsCall /\ AllFinite(call.actual) /\ IsConstant(call.actual)) =>
          call.out.r2 = 0
    /\ (call.fn = "r2" /\ IsConstant(call.actual)) => call.out = 0
    /\ (split # NoSplit /\ AllFinite(split.y_all) /\ IsConstant(split.y_all)) =>
          /\ (cur.metrics # <<>> => cur.metrics.r2 = 0)
          /\ \A k \in Idx(loop.foldMetrics) : loop.foldMetrics[k].r2 = 0
          /\ \A k \in Idx(results) :
                results[k].metrics.r2 = 0 /\ results[k].cvMetrics.mean.r2 = 0

\* C15: r2 was computed in rounded arithmetic for three equal actual values
\* whose rounded mean differs from them, with predictions equal to the actual
\* values
ConstantActualRoundedMean ==
    /\ call.fn = "r2"
    /\ Len(call.actual) = 3
    /\ IsConstant(call.actual)
    /\ call.predicted = call.actual
    /\ FDivN(FSumTo(call.actual, 3), 3) # call.actual[1]

\* the phase of a kind's block a suspension belongs to: 1 fit and evaluate,
\* 2 permutation importance, 3 cross-validation; 0 outside the blocks
PhaseOf(p) ==
    CASE p \in {"tick_train", "train_yield"} -> 1
      [] p \in {"tick_imp", "imp_yield"} -> 2
      [] p \in {"tick_cv", "cv_yield", "cv_train_yield"} -> 3
      [] OTHER -> 0

\* the types of the requested kinds before position k of the code's order
TypesBefore(k) ==
    LET Requested(i) == Includes(config.models, Kinds[i])
    IN SelectSeq([i \in 1..(k - 1) |-> IF Requested(i) THEN TypeOf(Kinds[i]) ELSE ""],
                 LAMBDA t : t # "")

PhaseState ==
    PhaseOf(pc) > 0 =>
       /\ split # NoSplit
       /\ Includes(config.models, cur.kind)
       /\ [k \in Idx(results) |-> results[k].type] = TypesBefore(KindIdx(cur.kind))
       /\ PhaseOf(pc) = 1 => cur.metrics = <<>> /\ cur.importance = <<>>
       /\ PhaseOf(pc) >= 2 => cur.model # <<>> /\ cur.metrics # <<>>
       /\ PhaseOf(pc) = 2 => Len(cur.importance) = 0 /\ loop.foldMetrics = <<>>
       /\ PhaseOf(pc) = 3 => Len(cur.importance) = Len(config.features)

PhaseStep ==
    /\ split' # split =>
          \/ split = NoSplit /\ pc = "tick_clean" /\ PhaseOf(pc') <= 1
          \/ split' = NoSplit /\ pc' = "idle"
    /\ (PhaseOf(pc) = 0 /\ PhaseOf(pc') > 0) => pc = "tick_clean" /\ PhaseOf(pc') = 1
    /\ (PhaseOf(pc) > 0 /\ PhaseOf(pc') > 0) =>
          IF cur'.kind = cur.kind
          THEN PhaseOf(pc') \in {PhaseOf(pc), PhaseOf(pc) + 1} /\ results' = results
          ELSE /\ PhaseOf(pc) = 3 /\ PhaseOf(pc') = 1
               /\ KindIdx(cur'.kind) > KindIdx(cur.kind)
    /\ (PhaseOf(pc) > 0 /\ pc' # "failed"
           /\ PhaseOf(pc') \notin {PhaseOf(pc), PhaseOf(pc) + 1}) =>
          /\ PhaseOf(pc) = 3
          /\ Len(loop.foldMetrics) = NFolds - 1
          /\ Len(results') = Len(results) + 1
          /\ SubSeq(results', 1, Len(results)) = results
          /\ results'[Len(results')].type = TypeOf(cur.kind)
          /\ results'[Len(results')].metrics = cur.metrics
          /\ results'[Len(results')].featureImportance = cur.importance
          /\ results'[Len(results')].modelInstance = cur.model
    /\ (results' # results /\ results' # <<>>) => PhaseOf(pc) = 3 /\ PhaseOf(pc') # 3

\* C16: cleaning, shuffle and split happen once, before the first model
\* phase; each requested kind then goes through fit and evaluation,
\* importance, five-fold cross-validation and the push of its artifact, in
\* that order, and the next kind starts only after that push
PhasesInOrder == [](PhaseState) /\ [][PhaseStep]_vars

\* C16: a run of all three kinds has finished with three artifacts
ThreeKindsInOrder ==
    /\ pc = "done"
    /\ [k \in Idx(results) |-> results[k].type] =
          <<"Linear Regression", "Random Forest", "Gradient Boosting">>
    /\ Len(split.X_train) > 0

IsFoldCall == call.fn = "runKFoldCV"

RECURSIVE Concat(_, _)
\* ss[1] \o ... \o ss[k]
Concat(ss, k) == IF k = 0 THEN <<>> ELSE Concat(ss, k - 1) \o ss[k]

\* the elements of s, as a set
Elems(s) == {s[i] : i \in Idx(s)}

\* C17: for every n >= 10 the five validation blocks, taken in fold order,
\* are the rows 1..n in their order (contiguous, disjoint, every row once),
\* the first four hold floor(n / 5) rows and the fifth the rest, and the
\* training rows of a fold are the rows outside its block, in their order
FoldsPartitionRows ==
    IsFoldCall =>
       /\ Concat(call.val, NFolds) = [i \in 1..call.n |-> i]
       /\ \A k \in 1..(NFolds - 1) : Len(call.val[k]) = call.n \div NFolds
       /\ Len(call.val[NFolds]) = (call.n \div NFolds) + (call.n % NFolds)
       /\ \A k \in 1..NFolds :
             call.tr[k] = SelectSeq([i \in 1..call.n |-> i],
                                    LAMBDA r : r \notin Elems(call.val[k]))

\* C17: the folds were cut from a number of rows that 5 does not divide
FoldsOfUnevenRows ==
    /\ IsFoldCall
    /\ call.n % NFolds = 3
    /\ Len(call.val[NFolds]) = Len(call.val[1]) + 3
    /\ Len(call.tr[NFolds]) < Len(call.tr[1])

\* the number of rows that pass the filter
CleanCount == Cardinality({i \in Idx(data) : RowPassesFilter(data[i], config)})

\* C18: the training partition is the first floor(n * (1 - testSplit)) rows
\* of the shuffled set and the test partition the rows after them: the two
\* put end to end are the n shuffled rows that cross-validation receives,
\* features and targets alike, and a fold of the boosting model starts from
\* the mean target of its training rows of that full set
SplitIsPrefixAndSuffix ==
    split # NoSplit =>
       /\ Len(split.X_all) = CleanCount
       /\ Len(split.X_train) * 100 <= CleanCount * (100 - config.testSplit)
       /\ (Len(split.X_train) + 1) * 100 > CleanCount * (100 - config.testSplit)
       /\ split.X_train \o split.X_test = split.X_all
       /\ split.y_train \o split.y_test = split.y_all
       /\ Len(split.y_train) = Len(split.X_train)
       /\ (pc = "cv_train_yield" /\ cur.kind = KindGbm) =>
             /\ Len(loop.sub.preds) = CleanCount - Len(FoldVal(split.y_all, loop.fold))
             /\ loop.sub.initialPred =
                   NDivN(NSum(FoldTrain(split.y_train \o split.y_test, loop.fold)),
                         Len(loop.sub.preds))

\* C18: a fold of the boosting model is being fitted on a split with both
\* partitions non-empty
BoostingFoldOnFullSet ==
    /\ pc = "cv_train_yield"
    /\ cur.kind = KindGbm
    /\ loop.fold = NFolds - 1
    /\ Len(split.X_train) = 10
    /\ Len(split.X_test) = 3

IsShuffleCall == call.fn = "shuffle"

RECURSIVE Replay(_, _, _)
\* s after the swaps k..Len(swaps), each exchanging elements i and j
Replay(s, swaps, k) ==
    IF k > Len(swaps) THEN s
    ELSE Replay(Swap(s, swaps[k].i + 1, swaps[k].j + 1), swaps, k + 1)

\* C19: the shuffle is one pass of swaps for i = n - 1 down to 1, each with
\* an index j in [0, i] taken from a generator that starts at 42 and steps
\* by state * 1664525 + 1013904223 mod 2^32, and its result holds every
\* input pair exactly once with x and y still together
ShuffleIsSeededFisherYates ==
    IsShuffleCall =>
       /\ Len(call.swaps) = (IF call.n = 0 THEN 0 ELSE call.n - 1)
       /\ \A k \in Idx(call.swaps) :
             /\ call.swaps[k].i = call.n - k
             /\ call.swaps[k].j \in 0..call.swaps[k].i
             /\ call.swaps[k].seed =
                   LcgNext(IF k = 1 THEN U32(SeedBase) ELSE call.swaps[k - 1].seed)
       /\ Len(call.swaps) > 0 => call.swaps[1].seed = U32(SeedBase * LcgMul + LcgInc)
       /\ call.out = Replay(call.pairs, call.swaps, 1)
       /\ Len(call.out) = call.n
       /\ \A i \in 1..call.n : \E k \in 1..call.n : call.out[k] = call.pairs[i]
       /\ \A k \in 1..call.n : call.out[k].y = 10 * call.out[k].x[1]

\* C19: at least ten pairs were shuffled, the first and the last of them
\* moved, and one pass swapped an element with itself
TenPairsShuffled ==
    /\ IsShuffleCall
    /\ call.n >= MinCleanRows
    /\ call.out[1] # call.pairs[1]
    /\ call.out[call.n] # call.pairs[call.n]
    /\ \E k \in Idx(call.swaps) : call.swaps[k].j = call.swaps[k].i

InBoosting == pc \in {"train_yield", "cv_train_yield"} /\ cur.kind = KindGbm
InForest == pc \in {"train_yield", "cv_train_yield"} /\ cur.kind = KindRf

\* where the run is suspended inside a loop, the loop stands before a round
\* r with r mod 10 = 0, a tree i with i mod 5 = 0, a fold or a feature
SuspendedAtLoopHead ==
    /\ InBoosting => /\ loop.sub.iter % GbmYieldEvery = 0
                     /\ loop.sub.iter < loop.sub.nEstimators
                     /\ Len(loop.sub.estimators) = loop.sub.iter
    /\ InForest => /\ Len(loop.sub.trees) % TreeYieldEvery = 0
                   /\ Len(loop.sub.trees) < loop.sub.nEstimators
    /\ pc \in {"cv_yield", "cv_train_yield"} =>
          loop.fold < NFolds /\ Len(loop.foldMetrics) = loop.fold
    /\ pc = "imp_yield" => loop.f < Len(config.features) /\ Len(loop.raws) = loop.f

\* what one step from a suspension point to the next runs
BoundedWork ==
    /\ InBoosting =>
          IF pc' = pc /\ loop'.fold = loop.fold
          THEN /\ loop'.sub.iter > loop.sub.iter
               /\ loop'.sub.iter - loop.sub.iter <= GbmYieldEvery
          ELSE /\ loop.sub.nEstimators - loop.sub.iter <= GbmYieldEvery
               /\ pc = "train_yield" =>
                     Len(cur'.model.estimators) - loop.sub.iter <= GbmYieldEvery
    /\ InForest =>
          IF pc' = pc /\ loop'.fold = loop.fold
          THEN /\ Len(loop'.sub.trees) > Len(loop.sub.trees)
               /\ Len(loop'.sub.trees) - Len(loop.sub.trees) <= TreeYieldEvery
          ELSE /\ loop.sub.nEstimators - Len(loop.sub.trees) <= TreeYieldEvery
               /\ pc = "train_yield" =>
                     Len(cur'.model.trees) - Len(loop.sub.trees) <= TreeYieldEvery
    /\ pc \in {"cv_yield", "cv_train_yield"} =>
          \/ pc' \in {"cv_yield", "cv_train_yield"}
             /\ loop'.fold \in {loop.fold, loop.fold + 1}
             /\ Len(loop'.foldMetrics) = loop'.fold
             /\ loop'.fold = loop.fold + 1 => pc' = "cv_yield"
          \/ loop.fold = NFolds - 1 /\ Len(results') = Len(results) + 1
    /\ pc = "imp_yield" =>
          \/ pc' = "imp_yield" /\ loop'.f = loop.f + 1 /\ Len(loop'.raws) = loop'.f
          \/ pc' = "tick_cv" /\ loop.f = Len(config.features) - 1

\* C20: the run is suspended before every boosting round r with
\* r mod 10 = 0, every tree i with i mod 5 = 0, every fold and every
\* feature of the permutation importance, and from one suspension to the
\* next at most 10 rounds, 5 trees, one fold or one feature are run
SuspensionsBoundWork == [](SuspendedAtLoopHead) /\ [][BoundedWork]_vars

\* C20: the last fold of the boosting model is suspended before round 20
BoostingFoldSuspendedAtRoundTwenty ==
    /\ pc = "cv_train_yield"
    /\ cur.kind = KindGbm
    /\ loop.fold = NFolds - 1
    /\ loop.sub.iter = 2 * GbmYieldEvery

\* C21: a run that was started completes in the end, with the result posted
\* or with the error posted, when every suspended timeout is resumed
RunTerminates == (pc = "idle") ~> (pc \in {"done", "failed"})

\* C21: a run of the three kinds completed after the suspensions of its
\* trees, rounds, features and folds
RunCompletedAfterSuspensions ==
    /\ pc = "done"
    /\ Len(results) = 3
    /\ Len(progress) > 10
    /\ outbox[Len(outbox)].type = "result"

IsGbmCall == call.fn = "gbm.train"

\* the outputs of the stumps appended so far on row x, first to last
StumpOutputs(g, x) ==
    [k \in Idx(g.estimators) |-> StumpPredictSingle(g.estimators[k], x)]

RECURSIVE AddedInOrder(_, _, _, _)
\* start + rate * outs[1] + ... + rate * outs[k], every product added in turn
AddedInOrder(start, rate, outs, k) ==
    IF k = 0 THEN start
    ELSE NAdd(AddedInOrder(start, rate, outs, k - 1), NMul(rate, outs[k]))

\* what holds of the state of train() on the rows X, y after a round, given the
\* running prediction Expected(i) of row i
BoostingStateIs(g, X, y, Expected(_)) ==
    /\ g.initialPred = NDivN(NSum(y), Len(y))
    /\ Len(g.estimators) = g.iter
    /\ \A i \in Idx(y) :
          /\ g.preds[i] = Expected(i)
          /\ g.residuals[i] = NSub(y[i], g.preds[i])
          /\ GbmPredictSingle(GbmInstance(g), X[i]) = g.preds[i]

IsStumpCall == call.fn = "stump.train"

\* the rows of X whose feature f (counted from 0) is at most v, and the rest
RowsUpTo(X, f, v) == {i \in Idx(X) : X[i][f + 1] <= v}
RowsAbove(X, f, v) == {i \in Idx(X) : X[i][f + 1] > v}

\* the sum of vals[i] over the rows i in S
RECURSIVE SumOver(_, _)
SumOver(S, vals) ==
    IF S = {} THEN 0
    ELSE LET i == CHOOSE j \in S : TRUE IN vals[i] + SumOver(S \ {i}, vals)

\* sum of squares minus squared sum over count, the error of one side
SideError(S, res) ==
    NSub(SumOver(S, [i \in Idx(res) |-> NMul(res[i], res[i])]),
         NDivN(NMul(SumOver(S, res), SumOver(S, res)), Cardinality(S)))

SideMean(S, res) == NDivN(SumOver(S, res), Cardinality(S))

\* the boundaries of feature f: the pairs of distinct values of the column
\* with no value of the column between them
Boundaries(X) ==
    {b \in [f : 0..(Len(X[1]) - 1), lo : StumpFeatureValues, hi : StumpFeatureValues] :
        /\ b.lo < b.hi
        /\ \E i \in Idx(X) : X[i][b.f + 1] = b.lo
        /\ \E i \in Idx(X) : X[i][b.f + 1] = b.hi
        /\ \A i \in Idx(X) : ~(b.lo < X[i][b.f + 1] /\ X[i][b.f + 1] < b.hi)}

SplitError(X, res, b) ==
    NAdd(SideError(RowsUpTo(X, b.f, b.lo), res), SideError(RowsAbove(X, b.f, b.lo), res))

\* b comes before c in the order of the search
Earlier(b, c) == b.f < c.f \/ (b.f = c.f /\ b.lo < c.lo)

\* the stump is the first boundary of minimum error, with the threshold
\* halfway and the leaf values the means of the two sides of the boundary
StumpIsFirstMinimum ==
    (IsStumpCall /\ Boundaries(call.X) # {}) =>
       \E b \in Boundaries(call.X) :
          /\ call.stump.feature = b.f
          /\ call.stump.threshold = NDivN(NAdd(b.lo, b.hi), 2)
          /\ \A c \in Boundaries(call.X) :
                /\ SplitError(call.X, call.residuals, b) <=
                      SplitError(call.X, call.residuals, c)
                /\ Earlier(c, b) => SplitError(call.X, call.residuals, b) <
                                       SplitError(call.X, call.residuals, c)
          /\ call.stump.leftVal = SideMean(RowsUpTo(call.X, b.f, b.lo), call.residuals)
          /\ call.stump.rightVal = SideMean(RowsAbove(call.X, b.f, b.lo), call.residuals)

\* the leaf values are the means of the residuals of the rows with value at
\* most the threshold and above the threshold
LeafValuesAreMeansByThreshold ==
    (IsStumpCall /\ Boundaries(call.X) # {}) =>
       /\ RowsAbove(call.X, call.stump.feature, call.stump.threshold) # {}
       /\ call.stump.leftVal =
             SideMean(RowsUpTo(call.X, call.stump.feature, call.stump.threshold),
                      call.residuals)
       /\ call.stump.rightVal =
             SideMean(RowsAbove(call.X, call.stump.feature, call.stump.threshold),
                      call.residuals)

\* C23: the stump is the split of minimum error over all features and all
\* boundaries between distinct adjacent values, the first one among equal
\* minima, and its leaf values are the means of the residuals of the rows
\* with value <= threshold and > threshold
StumpIsBestSplit == StumpIsFirstMinimum /\ LeafValuesAreMeansByThreshold

\* C23: a stump was trained on a column whose two values are neighbours on
\* the number grid, and the threshold is the upper one
StumpThresholdOnUpperValue ==
    /\ IsStumpCall
    /\ \E i, j \in Idx(call.X) :
          /\ call.X[i][call.stump.feature + 1] < call.X[j][call.stump.feature + 1]
          /\ call.stump.threshold = call.X[j][call.stump.feature + 1]
          /\ call.residuals[i] # call.residuals[j]

IsTreeCall == call.fn = "et.train"

IsLeaf(node) == "left" \notin DOMAIN node

\* the depth of the tree below node: 0 for a leaf
RECURSIVE TreeDepth(_)
TreeDepth(node) ==
    IF IsLeaf(node) THEN 0
    ELSE 1 + (IF TreeDepth(node.left) >= TreeDepth(node.right)
              THEN TreeDepth(node.left) ELSE TreeDepth(node.right))

\* node and everything below it is as C24 says, when the samples S of the
\* bootstrap sample X, y reach it
RECURSIVE NodeAsStated(_, _, _, _, _)
NodeAsStated(node, S, X, y, subset) ==
    /\ node.value = SideMean(S, y)
    /\ Cardinality(S) < 2 * MinLeaf => IsLeaf(node)
    /\ ~IsLeaf(node) =>
          LET col == node.feature + 1
              L == {i \in S : X[i][col] <= node.threshold}
              R == {i \in S : X[i][col] > node.threshold}
          IN /\ {"left", "right", "feature", "threshold"} \subseteq DOMAIN node
             /\ \E k \in Idx(subset) : subset[k] = node.feature
             /\ \E i \in S : X[i][col] <= node.threshold
             /\ \E i \in S : X[i][col] >= node.threshold
             /\ Cardinality(L) >= MinLeaf
             /\ Cardinality(R) >= MinLeaf
             /\ NodeAsStated(node.left, L, X, y, subset)
             /\ NodeAsStated(node.right, R, X, y, subset)

\* C24: a tree of ExtraTreesRegressor.train is no deeper than maxDepth; a
\* node with fewer than 2 * minLeaf samples is a leaf; an internal node has
\* both children, each with at least minLeaf samples, and splits on a
\* feature of the subset at a threshold within the feature's range in the
\* node; every node's value is the mean target of the samples that reach it
TreeIsWellFormed ==
    IsTreeCall =>
       /\ TreeDepth(call.tree) <= call.maxDepth
       /\ NodeAsStated(call.tree, 1..call.n, call.bootX, call.bootY, call.featureSubset)

\* C24: a tree of two levels was built, and the limit was what stopped it
TreeOfTwoLevels ==
    /\ IsTreeCall
    /\ call.maxDepth = 2
    /\ TreeDepth(call.tree) = 2

\* how often v occurs in s
Count(s, v) == Cardinality({i \in Idx(s) : s[i] = v})

IsPermutationOf(s, t) ==
    Len(s) = Len(t) /\ \A i \in Idx(t) : Count(s, t[i]) = Count(t, t[i])

\* M differs from X in column f (counted from 0) at most, and column f of M
\* is a permutation of column f of X
OnlyColumnPermuted(M, X, f) ==
    /\ Len(M) = Len(X)
    /\ \A i \in Idx(X) :
          /\ Len(M[i]) = Len(X[i])
          /\ \A c \in Idx(X[i]) : c # f + 1 => M[i][c] = X[i][c]
    /\ IsPermutationOf(Column(M, f + 1), Column(X, f + 1))

ImportanceReadsCopy ==
    pc = "imp_yield" =>
       OnlyColumnPermuted(ShuffledMatrix(split.X_test, loop.f), split.X_test, loop.f)

SplitKept == split # NoSplit => (split' = split \/ pc' = "idle")

\* C25: for each feature the permutation importance evaluates the model on
\* a matrix that differs from the test matrix in that feature's column
\* only, holding a permutation of the column; and the test matrix, the
\* targets and the full shuffled set stay as they were split, through the
\* importance, the cross-validation and the later kinds
ImportanceLeavesDataUnchanged == [](ImportanceReadsCopy) /\ [][SplitKept]_vars

\* C25: a feature of a test matrix of at least three rows is being
\* permuted, some value of its column moves, and an artifact is already kept
FeaturePermutedAfterFirstKind ==
    /\ pc = "imp_yield"
    /\ Len(split.X_test) >= 3
    /\ Len(results) >= 1
    /\ Column(ShuffledMatrix(split.X_test, loop.f), loop.f + 1) #
          Column(split.X_test, loop.f + 1)

\* the counts that the comment above runKFoldCV gives for cross-validation
DocTreesCV == 30
DocGbmRoundsCV == 30

\* C26: a fold of the cross-validation fits a new forest of 30 trees or a
\* new boosting model of 30 rounds, the counts of the code's comment, and
\* the final models are fitted with 50 trees and 80 rounds
CvUsesDocumentedCounts ==
    /\ (pc = "cv_train_yield" /\ cur.kind = KindRf) =>
          /\ loop.sub.nEstimators = DocTreesCV
          /\ Len(loop.sub.trees) < loop.sub.nEstimators
          /\ Len(cur.model.trees) = 50
    /\ (pc = "cv_train_yield" /\ cur.kind = KindGbm) =>
          /\ loop.sub.nEstimators = DocGbmRoundsCV
          /\ loop.sub.iter < loop.sub.nEstimators
          /\ Len(cur.model.estimators) = 80
    /\ (pc = "train_yield" /\ cur.kind = KindRf) => loop.sub.nEstimators = 50
    /\ (pc = "train_yield" /\ cur.kind = KindGbm) => loop.sub.nEstimators = 80

\* C26: the forest of a fold is being fitted, five of its ten trees built
ForestFoldOfTenTrees ==
    /\ pc = "cv_train_yield"
    /\ cur.kind = KindRf
    /\ loop.sub.nEstimators = 10
    /\ Len(loop.sub.trees) = 5

\* the input vectors of the configured length
ConfiguredInputs == {x \in InputVectors : Len(x) = Len(config.features)}

\* the linear models of trainedModels that the step replaces by a model of
\* the same id read from the table, as pairs of positions (before, after)
RestoredLinear ==
    {p \in Idx(host.store) \X Idx(host'.store) :
        /\ host.store[p[1]].type = "Linear Regression"
        /\ host'.store[p[2]].id = host.store[p[1]].id}

\* C27: a Linear Regression model that addTrainedModel has stored and
\* syncFromDB reads back holds the scaler it was trained with, and
\* predictWithModel returns for it what it returned before it was stored
RestoredLinearPredictsAsStored ==
    [][(~host.synced /\ host'.synced) =>
          \A p \in RestoredLinear :
              /\ "scalerJSON" \in DOMAIN host'.store[p[2]]
              /\ host'.store[p[2]].scalerJSON = host.store[p[1]].scalerJSON
              /\ \A x \in ConfiguredInputs :
                    PredictWithModel(host'.store[p[2]], x)
                       = PredictWithModel(host.store[p[1]], x)]_vars

\* C27: trainedModels holds a linear model read back from the table without
\* its scaler, while the results of the page still hold the model as it was
\* added, and the two predict differently
LinearRestoredWithoutScaler ==
    /\ host.synced
    /\ \E k \in Idx(host.store), j \in Idx(host.page.results) :
          /\ host.store[k].type = "Linear Regression"
          /\ host.page.results[j].id = host.store[k].id
          /\ "scalerJSON" \notin DOMAIN host.store[k]
          /\ "scalerJSON" \in DOMAIN host.page.results[j]
          /\ host.store[k].modelJSON = host.page.results[j].modelJSON
          /\ \E x \in ConfiguredInputs :
                PredictWithModel(host.store[k], x)
                   # PredictWithModel(host.page.results[j], x)

\* a model as it may cross a boundary: no live object, and a modelJSON from
\* which reconstructModel builds a predictor
Serialised(m) ==
    /\ "modelInstance" \in DOMAIN m => m.modelInstance = NullInstance
    /\ HasModelJSON(m)
    /\ Reconstructs(m)

AllSerialised(models) == \A k \in Idx(models) : Serialised(models[k])

\* C28: every model of a 'result' message of the worker, of a 'result' event
\* of the server, of a body posted to /api/models and of the persisted
\* trainedModels has modelInstance null or absent and holds its modelJSON
NoInstanceCrossesBoundary ==
    /\ \A i \in Idx(outbox) : outbox[i].type = "result" => AllSerialised(outbox[i].models)
    /\ host.mode = "server" =>
          \A i \in Idx(SseEvents) :
              SseEvents[i].type = "result" => AllSerialised(SseEvents[i].models)
    /\ \A i \in Idx(host.posts) :
          "modelInstance" \notin DOMAIN host.posts[i] /\ Serialised(host.posts[i])
    /\ AllSerialised(host.persisted)

\* C28: the worker has posted its result with the three models, whose live
\* objects are still in the results of trainModels; the page has added them
\* to the store, the persisted copy holds them and a request is under way
ResultPostedAndPersisted ==
    /\ host.mode = "page"
    /\ pc = "done"
    /\ Len(results) = Len(Kinds)
    /\ \A k \in Idx(results) : results[k].modelInstance # NullInstance
    /\ Len(LastOf(outbox).models) = Len(Kinds)
    /\ Len(host.persisted) = Len(Kinds)
    /\ host.posts # <<>>

\* C28: the server has written a 'result' event with the three models
ServerResultWritten ==
    /\ host.mode = "server"
    /\ SseEvents # <<>>
    /\ LastOf(SseEvents).type = "result"
    /\ Len(LastOf(SseEvents).models) = Len(Kinds)

\* the workers of the page in a state: at most one is live, and it is the
\* worker of workerRef; none is live while the page is not mounted; a worker
\* that is not live has no message left to deliver; and the models of a run
\* have been added to the store at most once
WorkersOfPage ==
    /\ Cardinality(host.live) <= 1
    /\ host.live \subseteq {host.ref}
    /\ ~host.mounted => host.live = {}
    /\ \A w \in 1..MaxWorkers :
          /\ w \notin host.live => Pending(host, w) = <<>>
          /\ Cardinality({i \in Idx(host.added) : host.added[i] = w}) <= 1

\* a step in which a message of a worker is handled: the worker is live and
\* is the worker of workerRef, and it is terminated with a 'result' or an
\* 'error' message
HandledWhileLive ==
    (host'.handled # host.handled /\ host'.handled.w # 0) =>
        LET w == host'.handled.w
        IN /\ w \in host.live
           /\ w = host.ref
           /\ Head(Pending(host, w)).type \in {"result", "error"} => w \notin host'.live

\* a step that changes the state of the page or the store is the start of
\* a run, the mounting of the page, the answer of GET /api/models, or the
\* handling of a message or an error of the live worker of workerRef
ChangedByLiveWorker ==
    (host'.page # host.page \/ host'.store # host.store) =>
        \/ host'.current = host.current + 1
        \/ host'.mounted /\ ~host.mounted
        \/ host'.store = GetModels(host.db) /\ host'.page = host.page
        \/ /\ host.ref \in host.live
           /\ \/ host'.handled = [w |-> host.ref, n |-> host.handled.n + 1]
              \/ host.ref \notin host'.live /\ host'.store = host.store

\* C29: at most one worker of the training page is live at any time; a run
\* starts after the worker before it is terminated; a worker is terminated
\* when its 'result' or 'error' message or its error is handled and when
\* the page is unmounted; the models of a run are added to the store at most
\* once; and no message of a worker that is superseded or terminated changes
\* the progress, the results or the store
OneLiveWorker ==
    /\ [](WorkersOfPage)
    /\ [][HandledWhileLive /\ ChangedByLiveWorker]_vars

\* C29: the second worker's result has been handled and its models are in
\* the store, after a worker was terminated with messages it had posted
\* still to be handled; the models of the first run were never added
SecondRunAddedOnce ==
    /\ host.current = 2
    /\ host.added = <<2>>
    /\ host.discarded
    /\ host.live = {}
    /\ Len(host.store) = Len(Kinds)
    /\ host.page.results = host.store

\* C30: with 10 or more clean rows and a testSplit strictly between 0 and 1
\* the training partition and the test partition both hold a row, and no
\* run fails on an empty matrix
BothPartitionsNonEmpty ==
    (CleanCount >= MinCleanRows /\ config.testSplit > 0 /\ config.testSplit < 100) =>
        /\ split # NoSplit => (Len(split.X_train) > 0 /\ Len(split.X_test) > 0)
        /\ pc = "failed" => LastOf(outbox).message # TypeErrorMsg

\* C30: ten clean rows were split with testSplit 0.95 into no training row
\* and ten test rows, and the fit of the first model has thrown
EmptyTrainingPartition ==
    /\ CleanCount = MinCleanRows
    /\ config.testSplit = 95
    /\ split # NoSplit
    /\ Len(split.X_train) = 0
    /\ Len(split.X_test) = MinCleanRows
    /\ pc = "failed"
    /\ LastOf(outbox).message = TypeErrorMsg

====
